---- MODULE Spec2Model ----
(***************************************************************************)
(* MeshPilot: the tool dispatcher (tools.Manager.ExecuteTool), the tool    *)
(* handlers it routes to, the schema registry (mcp.GetToolDefinitions) and *)
(* the two front-ends of main.go (stdio server, single-shot --tool).       *)
(*                                                                         *)
(* A text produced by fmt.Sprintf or by string concatenation is a sequence *)
(* of string parts: the literal pieces of the format and the values put in *)
(* their places.  A text "contains" a value when it is one of the parts.   *)
(***************************************************************************)
EXTENDS Integers, Sequences, FiniteSets, TLC

(***************************************************************************)
(* Bounds of the model.                                                    *)
(***************************************************************************)
\* external operations of one invocation that do not take their normal outcome
MaxFailures == 2
\* optional keys put in an argument object besides the required ones
MaxExtra == 1
\* requests a client sends on the channel of a server
MaxRequests == 2
\* in a request to a server: optional keys of the argument object, and
\* external operations that do not take their normal outcome
MaxRequestExtra == 0
MaxRequestFailures == 0

(***************************************************************************)
(* JSON values, as encoding/json sees them.                                *)
(***************************************************************************)
JStr(s) == [ty |-> "string", s |-> s, n |-> 0, b |-> FALSE, a |-> <<>>]
JNum(n) == [ty |-> "number", s |-> "", n |-> n, b |-> FALSE, a |-> <<>>]
JBool(b) == [ty |-> "boolean", s |-> "", n |-> 0, b |-> b, a |-> <<>>]
JArr(a) == [ty |-> "array", s |-> "", n |-> 0, b |-> FALSE, a |-> a]
JObj(s) == [ty |-> "object", s |-> s, n |-> 0, b |-> FALSE, a |-> <<>>]
JNull == [ty |-> "null", s |-> "", n |-> 0, b |-> FALSE, a |-> <<>>]

\* the zero value of a Go field type (a nil map reads as JSON null)
Zero(goType) ==
  CASE goType = "string" -> JStr("")
    [] goType = "int" -> JNum(0)
    [] goType = "bool" -> JBool(FALSE)
    [] goType = "[]string" -> JArr(<<>>)
    [] OTHER -> JNull

\* can the JSON value v be stored in a Go field of type goType
Assignable(v, goType) ==
  \/ v.ty = "null"
  \/ goType = "string" /\ v.ty = "string"
  \/ goType = "int" /\ v.ty = "number"
  \/ goType = "bool" /\ v.ty = "boolean"
  \/ goType = "[]string" /\ v.ty = "array"
  \/ goType = "map" /\ v.ty = "object"

\* Go errors: nil, errors.New / an error of a collaborator, fmt.Errorf("..%w")
NoErr == [nil |-> TRUE, msg |-> <<>>]

NewErr(msg) == [nil |-> FALSE, msg |-> msg]

Errorf(prefix, e) == [nil |-> FALSE, msg |-> <<prefix>> \o e.msg]

\* a json.RawMessage: its syntactic form and, for an object, its members
RawInvalid == [syntax |-> "invalid", obj |-> <<>>]
RawEmpty == [syntax |-> "empty", obj |-> <<>>]
RawNull == [syntax |-> "null", obj |-> <<>>]
RawArray == [syntax |-> "array", obj |-> <<>>]
RawString == [syntax |-> "string", obj |-> <<>>]
RawObject(o) == [syntax |-> "object", obj |-> o]

\* json.Unmarshal(args, &params) for a struct whose fields (by JSON key) have
\* the Go types given by fields: the error and the decoded struct
Unmarshal(raw, fields) ==
  LET zero == [k \in DOMAIN fields |-> Zero(fields[k])]
      set(k) == /\ k \in DOMAIN raw.obj
                /\ raw.obj[k].ty # "null"
                /\ Assignable(raw.obj[k], fields[k])
      bad == {k \in DOMAIN fields \cap DOMAIN raw.obj : ~Assignable(raw.obj[k], fields[k])}
  IN CASE raw.syntax = "invalid" -> [err |-> NewErr(<<"invalid character">>), v |-> zero]
       [] raw.syntax = "empty" -> [err |-> NewErr(<<"unexpected end of JSON input">>), v |-> zero]
       [] raw.syntax = "null" -> [err |-> NoErr, v |-> zero]
       [] raw.syntax = "object" ->
            [err |-> IF bad = {} THEN NoErr
                     ELSE NewErr(<<"json: cannot unmarshal into Go struct field">>),
             v |-> [k \in DOMAIN fields |-> IF set(k) THEN raw.obj[k] ELSE zero[k]]]
       [] OTHER -> [err |-> NewErr(<<"json: cannot unmarshal into Go value">>), v |-> zero]

(***************************************************************************)
(* Results (tools.CallToolResult) and what a handler hands back.           *)
(***************************************************************************)
TextContent(text) == [Type |-> "text", Text |-> text]

\* an error result without any content block
ErrorResultBare(text) == [nil |-> FALSE, IsError |-> TRUE, Content |-> <<>>]

\* a *CallToolResult: nil, or the struct it points to
ErrorResult(text) == [nil |-> FALSE, IsError |-> TRUE, Content |-> <<TextContent(text)>>]

TextResult(text) == [nil |-> FALSE, IsError |-> FALSE, Content |-> <<TextContent(text)>>]

NilResult == [nil |-> TRUE, IsError |-> FALSE, Content |-> <<>>]

\* one external operation as attempted: its name, the arguments it was given
\* (where the handler chooses them) and how it ended
Op(name, a, out) == [op |-> name, args |-> a, out |-> out]

\* the end of a handler: the result pointer and the Go error it returns, the
\* external operations it attempted in order, and whether it ended in a
\* run-time panic (nil dereference, index out of range) instead of returning
RetP(result, ops, panic) ==
  [result |-> IF panic THEN NilResult ELSE result, err |-> NoErr, ops |-> ops,
   panic |-> panic]

Ret(result, ops) == RetP(result, ops, FALSE)

\* outcomes of an external operation that are an error return
IsFail(out) == out \in {"error", "notfound", "exists"}

\* the message of the error an external operation returned
ErrMsg(name, out) == name \o ": " \o out

\* the outcome the environment gives operation name in this invocation
Out(env, name) == IF name \in DOMAIN env THEN env[name] ELSE "ok"

\* calling external operation name: the error it returns, its outcome, and
\* the attempt as recorded
CallA(env, name, a) ==
  LET o == Out(env, name)
  IN [err |-> IF IsFail(o) THEN NewErr(<<ErrMsg(name, o)>>) ELSE NoErr,
      out |-> o, ops |-> <<Op(name, a, o)>>]

Call(env, name) == CallA(env, name, <<>>)

BoolStr(b) == IF b THEN "true" ELSE "false"

\* json.MarshalIndent of a structured outcome, as text
MarshalIndent(parts) == <<"{">> \o parts \o <<"}">>

\* a rejection that hands the decoding error back as the Go error
InvalidParametersAsError(e) ==
  [result |-> NilResult, err |-> e, ops |-> <<>>, panic |-> FALSE]

\* the usual rejection of a payload that does not decode
InvalidParameters(e) == Ret(ErrorResult(<<"Invalid parameters: ">> \o e.msg), <<>>)

(***************************************************************************)
(* Cluster management handlers.                                            *)
(***************************************************************************)
\* the context the kubeconfig names as current when the process starts, and
\* the other context of the file
StartupContext == "kind-startup"

OtherContext == "<context>"

\* what the invocation finds outside the handler besides the outcomes of its
\* operations: the current-context of the kubeconfig file, and the order in
\* which this run of "for name, context := range config.Contexts" visits the
\* map (Go leaves the iteration order of a map unspecified)
World(env, context, order) ==
  env @@ [context |-> context, range |-> order]

CurrentContext(env) == IF "context" \in DOMAIN env THEN env["context"] ELSE StartupContext

RangeContexts(env) ==
  IF "range" \in DOMAIN env THEN env["range"] ELSE <<StartupContext, OtherContext>>

\* ListContexts never looks at args; the entries are in the order of the range
ListContexts(args, env) ==
  LET load == Call(env, "kubeconfig.load")
      order == RangeContexts(env)
      entry(name) == <<"name", name, "current", BoolStr(name = CurrentContext(env))>>
  IN IF ~load.err.nil
     THEN Ret(ErrorResult(<<"Failed to load kubeconfig: ">> \o load.err.msg), load.ops)
     ELSE IF load.out = "ok_empty" THEN Ret(TextResult(<<"null">>), load.ops)
     ELSE Ret(TextResult(MarshalIndent(entry(order[1]) \o entry(order[2]))), load.ops)

SwitchContextParams == [context |-> "string"]

SwitchContext(args, env) ==
  LET d == Unmarshal(args, SwitchContextParams)
      params == d.v
      load == Call(env, "kubeconfig.load")
      write == CallA(env, "kubeconfig.write", <<params["context"].s>>)
  IN IF ~d.err.nil THEN InvalidParameters(d.err)
     ELSE IF params["context"].s = ""
     THEN Ret(ErrorResult(<<"Context", " name is required">>), <<>>)
     ELSE IF ~load.err.nil
     THEN Ret(ErrorResult(<<"Failed to get kubeconfig: ">> \o load.err.msg), load.ops)
     ELSE IF load.out = "ok_empty"
     THEN Ret(ErrorResult(<<"Context '", params["context"].s, "' does not exist">>), load.ops)
     ELSE IF ~write.err.nil
     THEN Ret(ErrorResult(<<"Failed to switch context: ">> \o write.err.msg),
              load.ops \o write.ops)
     ELSE Ret(TextResult(<<"Successfully switched to context: ", params["context"].s>>),
              load.ops \o write.ops)

\* the server address of the cluster a context of the kubeconfig names
Server(context) == "https://" \o context \o ":6443"

\* rest.Config.Host of the client: NewClient built it from the context that
\* was current when the process started
Host == Server(StartupContext)

\* GetClusterInfo never looks at args; a failure of GetCurrentContext only
\* turns the context name into "unknown"
GetClusterInfo(args, env) ==
  LET version == Call(env, "discovery.version")
      nodes == Call(env, "nodes.list")
      namespaces == Call(env, "namespaces.list")
      current == Call(env, "kubeconfig.current")
      currentContext == IF current.err.nil THEN CurrentContext(env) ELSE "unknown"
  IN IF ~version.err.nil
     THEN Ret(ErrorResult(<<"Failed to get server version: ">> \o version.err.msg),
              version.ops)
     ELSE IF ~nodes.err.nil
     THEN Ret(ErrorResult(<<"Failed to get nodes: ">> \o nodes.err.msg),
              version.ops \o nodes.ops)
     ELSE IF ~namespaces.err.nil
     THEN Ret(ErrorResult(<<"Failed to get namespaces: ">> \o namespaces.err.msg),
              version.ops \o nodes.ops \o namespaces.ops)
     ELSE Ret(TextResult(MarshalIndent(<<"name", currentContext, "context", currentContext,
                                         "server", Host>>)),
              version.ops \o nodes.ops \o namespaces.ops \o current.ops)

(***************************************************************************)
(* Sample application handlers.                                            *)
(***************************************************************************)
\* a helper's return: its error and the operations it attempted
Done(err, ops) == [err |-> err, ops |-> ops]

createOrUpdateNamespace(env) ==
  LET create == Call(env, "namespaces.create")
      get == Call(env, "namespaces.get")
      update == Call(env, "namespaces.update")
  IN IF create.out = "exists"
     THEN IF ~get.err.nil THEN Done(get.err, create.ops \o get.ops)
          ELSE IF ~update.err.nil
          THEN Done(Errorf("failed to update namespace labels: ", update.err),
                    create.ops \o get.ops \o update.ops)
          ELSE Done(NoErr, create.ops \o get.ops \o update.ops)
     ELSE Done(create.err, create.ops)

\* Create of a resource, where AlreadyExists is not an error to the caller
createTolerant(env, name, prefix) ==
  LET create == Call(env, name)
  IN IF ~create.err.nil /\ create.out # "exists"
     THEN Done(Errorf(prefix, create.err), create.ops)
     ELSE Done(NoErr, create.ops)

createSleepServiceAccount(env) ==
  createTolerant(env, "serviceaccounts.create", "failed to create service account: ")

\* Create of the deployment of app, where AlreadyExists is not an error to
\* the caller: the deployment that exists is left as it is
createDeployment(env, app, namespace, replicas) ==
  LET create == CallA(env, "deployments.create", <<namespace, app, ToString(replicas)>>)
  IN IF ~create.err.nil /\ create.out # "exists"
     THEN Done(Errorf("failed to create deployment: ", create.err), create.ops)
     ELSE Done(NoErr, create.ops)

createSleepDeployment(env, namespace, replicas) ==
  createDeployment(env, "sleep", namespace, replicas)

createHttpbinServiceAccount(env) ==
  createTolerant(env, "serviceaccounts.create", "failed to create service account: ")

createHttpbinDeployment(env, namespace, replicas) ==
  createDeployment(env, "httpbin", namespace, replicas)

createHttpbinService(env) ==
  createTolerant(env, "services.create", "failed to create service: ")

DeploySleepAppParams ==
  [namespace |-> "string", istio_injection |-> "bool", replicas |-> "int"]

DeploySleepApp(args, env) ==
  LET d == Unmarshal(args, DeploySleepAppParams)
      namespace == IF d.v["namespace"].s = "" THEN "default" ELSE d.v["namespace"].s
      replicas == IF d.v["replicas"].n = 0 THEN 1 ELSE d.v["replicas"].n
      ns == createOrUpdateNamespace(env)
      sa == createSleepServiceAccount(env)
      dep == createSleepDeployment(env, namespace, replicas)
  IN IF ~d.err.nil THEN InvalidParameters(d.err)
     ELSE IF ~ns.err.nil
     THEN Ret(ErrorResult(<<"Failed to create/update namespace: ">> \o ns.err.msg), ns.ops)
     ELSE IF ~sa.err.nil
     THEN Ret(ErrorResult(<<"Failed to create service account: ">> \o sa.err.msg),
              ns.ops \o sa.ops)
     ELSE IF ~dep.err.nil
     THEN Ret(ErrorResult(<<"Failed to create deployment: ">> \o dep.err.msg),
              ns.ops \o sa.ops \o dep.ops)
     ELSE Ret(TextResult(<<"Sleep app deployment initiated in namespace '", namespace,
                           "' with ", ToString(replicas),
                           " replicas and Istio injection enabled">>),
              ns.ops \o sa.ops \o dep.ops)

DeployHttpbinAppParams ==
  [namespace |-> "string", istio_injection |-> "bool", replicas |-> "int",
   expose_service |-> "bool"]

DeployHttpbinApp(args, env) ==
  LET d == Unmarshal(args, DeployHttpbinAppParams)
      namespace == IF d.v["namespace"].s = "" THEN "default" ELSE d.v["namespace"].s
      replicas == IF d.v["replicas"].n = 0 THEN 1 ELSE d.v["replicas"].n
      ns == createOrUpdateNamespace(env)
      sa == createHttpbinServiceAccount(env)
      dep == createHttpbinDeployment(env, namespace, replicas)
      svc == createHttpbinService(env)
  IN IF ~d.err.nil THEN InvalidParameters(d.err)
     ELSE IF ~ns.err.nil
     THEN Ret(ErrorResult(<<"Failed to create/update namespace: ">> \o ns.err.msg), ns.ops)
     ELSE IF ~sa.err.nil
     THEN Ret(ErrorResult(<<"Failed to create service account: ">> \o sa.err.msg),
              ns.ops \o sa.ops)
     ELSE IF ~dep.err.nil
     THEN Ret(ErrorResult(<<"Failed to create deployment: ">> \o dep.err.msg),
              ns.ops \o sa.ops \o dep.ops)
     ELSE IF ~svc.err.nil
     THEN Ret(ErrorResult(<<"Failed to create service: ">> \o svc.err.msg),
              ns.ops \o sa.ops \o dep.ops \o svc.ops)
     ELSE Ret(TextResult(<<"Httpbin app deployment initiated in namespace '", namespace,
                           "' with ", ToString(replicas),
                           " replicas, Istio injection enabled, and service exposed">>),
              ns.ops \o sa.ops \o dep.ops \o svc.ops)

UndeployParams == [namespace |-> "string"]

\* every Delete error is at most logged
UndeploySleepApp(args, env) ==
  LET d == Unmarshal(args, UndeployParams)
      namespace == IF d.v["namespace"].s = "" THEN "default" ELSE d.v["namespace"].s
      dep == Call(env, "deployments.delete")
      sa == Call(env, "serviceaccounts.delete")
  IN IF ~d.err.nil THEN InvalidParameters(d.err)
     ELSE Ret(TextResult(<<"Sleep app removal initiated from namespace '", namespace, "'">>),
              dep.ops \o sa.ops)

UndeployHttpbinApp(args, env) ==
  LET d == Unmarshal(args, UndeployParams)
      namespace == IF d.v["namespace"].s = "" THEN "default" ELSE d.v["namespace"].s
      dep == Call(env, "deployments.delete")
      svc == Call(env, "services.delete")
      sa == Call(env, "serviceaccounts.delete")
  IN IF ~d.err.nil THEN InvalidParameters(d.err)
     ELSE Ret(TextResult(<<"Httpbin app removal initiated from namespace '", namespace, "'">>),
              dep.ops \o svc.ops \o sa.ops)

(***************************************************************************)
(* Istio handlers (helm).                                                  *)
(***************************************************************************)
checkHelmAvailable(env) ==
  LET run == Call(env, "helm.version")
  IN IF ~run.err.nil
     THEN Done(Errorf("helm command not found or not working: ", run.err), run.ops)
     ELSE Done(NoErr, run.ops)

\* helm repo add (an "already exists" failure is passed over), then repo update
addHelmRepo(env, repo) ==
  LET add == Call(env, "helm.repo.add:" \o repo)
      update == Call(env, "helm.repo.update:" \o repo)
  IN IF ~add.err.nil /\ add.out # "exists"
     THEN Done(Errorf("failed to add " \o repo \o " helm repo: ", add.err), add.ops)
     ELSE IF ~update.err.nil
     THEN Done(Errorf("failed to update " \o repo \o " helm repo: ", update.err),
               add.ops \o update.ops)
     ELSE Done(NoErr, add.ops \o update.ops)

addIstioHelmRepo(env) == addHelmRepo(env, "istio")

\* helm install whose failure is not handed back
helmInstallUnchecked(env, release, namespace, version, wait, timeout) ==
  LET run == CallA(env, "helm.install:" \o release,
                   <<namespace, version, BoolStr(wait), IF wait THEN timeout ELSE "">>)
  IN Done(NoErr, run.ops)

\* helm install <release> --namespace .. [--version ..] [--wait [--timeout ..]]
helmInstall(env, release, namespace, version, wait, timeout) ==
  LET run == CallA(env, "helm.install:" \o release,
                   <<namespace, version, BoolStr(wait), IF wait THEN timeout ELSE "">>)
  IN IF ~run.err.nil
     THEN Done(Errorf("helm install " \o release \o " failed: ", run.err), run.ops)
     ELSE Done(NoErr, run.ops)

installIstioCNI(env, namespace, version, wait, timeout) ==
  helmInstall(env, "istio-cni", namespace, version, wait, timeout)

installIstioBase(env, namespace, version, wait, timeout) ==
  helmInstall(env, "istio-base", namespace, version, wait, timeout)

\* istiod installed without the --timeout flag
installIstiodUntimed(env, namespace, version, wait, timeout) ==
  helmInstall(env, "istiod", namespace, version, wait, "")

installIstiod(env, namespace, version, wait, timeout) ==
  helmInstall(env, "istiod", namespace, version, wait, timeout)

installIstioGateway(env, namespace, version, wait, timeout) ==
  helmInstall(env, "istio-ingress", namespace, version, wait, timeout)

\* helm uninstall whose failure is not handed back
helmUninstallUnchecked(env, release, namespace, wait, timeout, lenient) ==
  LET run == CallA(env, "helm.uninstall:" \o release, <<namespace, BoolStr(wait), timeout>>)
  IN Done(NoErr, run.ops)

\* helm uninstall <release>; with lenient, "not found" in the output is success
helmUninstall(env, release, namespace, wait, timeout, lenient) ==
  LET run == CallA(env, "helm.uninstall:" \o release, <<namespace, BoolStr(wait), timeout>>)
  IN IF ~run.err.nil /\ ~(lenient /\ run.out = "notfound")
     THEN Done(Errorf("helm uninstall " \o release \o " failed: ", run.err), run.ops)
     ELSE Done(NoErr, run.ops)

uninstallIstioGateway(env, namespace, wait, timeout) ==
  helmUninstall(env, "istio-ingress", namespace, wait, timeout, TRUE)

uninstallIstiod(env, namespace, wait, timeout) ==
  helmUninstall(env, "istiod", namespace, wait, timeout, FALSE)

uninstallIstioBase(env, namespace, wait, timeout) ==
  helmUninstall(env, "istio-base", namespace, wait, timeout, FALSE)

uninstallIstioCNI(env, namespace, wait, timeout) ==
  helmUninstall(env, "istio-cni", namespace, wait, timeout, TRUE)

\* kubectl get crd, then kubectl delete of the istio.io ones if there are any
deleteIstioCRDs(env) ==
  LET get == Call(env, "kubectl.get.crd")
      del == Call(env, "kubectl.delete.crd")
  IN IF ~get.err.nil THEN Done(Errorf("failed to get CRDs: ", get.err), get.ops)
     ELSE IF get.out = "ok_empty" THEN Done(NoErr, get.ops)
     ELSE IF ~del.err.nil
     THEN Done(Errorf("failed to delete Istio CRDs: ", del.err), get.ops \o del.ops)
     ELSE Done(NoErr, get.ops \o del.ops)

\* helm list --filter <release>: the chart version, or an error
getIstioHelmReleaseVersion(env, namespace, releaseName) ==
  LET run == CallA(env, "helm.list", <<namespace, releaseName>>)
  IN IF ~run.err.nil
     THEN [err |-> Errorf("failed to get helm release info: ", run.err),
           ops |-> run.ops, version |-> ""]
     ELSE IF run.out = "ok_empty"
     THEN [err |-> NewErr(<<"release ", releaseName, " not found">>),
           ops |-> run.ops, version |-> ""]
     ELSE [err |-> NoErr, ops |-> run.ops, version |-> "chart-1.0"]

\* getIstioStatus always returns a nil error: only NotFound of the namespace
\* is looked at, a failed deployment list becomes an entry of Issues
getIstioStatus(env, namespace) ==
  LET ns == CallA(env, "namespaces.get", <<namespace>>)
      ds == CallA(env, "daemonsets.get", <<namespace, "istio-cni-node">>)
      dl == CallA(env, "deployments.list", <<namespace, "app=istiod">>)
      hv == getIstioHelmReleaseVersion(env, namespace, "istiod")
      installed == ds.err.nil \/ (dl.err.nil /\ dl.out # "ok_empty")
      issues == IF ~dl.err.nil
                THEN <<"Failed to list istiod deployments: ">> \o dl.err.msg
                ELSE <<>>
      version == IF hv.err.nil THEN hv.version ELSE "unknown"
  IN IF ns.out = "notfound"
     THEN [err |-> NoErr, ops |-> ns.ops, installed |-> FALSE,
           text |-> <<"installed", "false", "namespace", namespace,
                      "issues", "Istio namespace not found">>]
     ELSE [err |-> NoErr, ops |-> ns.ops \o ds.ops \o dl.ops \o hv.ops,
           installed |-> installed,
           text |-> <<"installed", BoolStr(installed), "version", version,
                      "namespace", namespace, "issues">> \o issues]

InstallIstioParams ==
  [namespace |-> "string", version |-> "string", values |-> "map",
   install_gateway |-> "bool", gateway_namespace |-> "string", install_cni |-> "bool",
   cni_values |-> "map", timeout |-> "string", wait |-> "bool"]

InstallIstio(args, env) ==
  LET d == Unmarshal(args, InstallIstioParams)
      namespace == IF d.v["namespace"].s = "" THEN "istio-system" ELSE d.v["namespace"].s
      gatewayNamespace == IF d.v["gateway_namespace"].s = "" THEN "istio-ingress"
                          ELSE d.v["gateway_namespace"].s
      timeout == IF d.v["timeout"].s = "" THEN "5m" ELSE d.v["timeout"].s
      wait == TRUE
      version == d.v["version"].s
      helm == checkHelmAvailable(env)
      repo == addIstioHelmRepo(env)
      cni == IF d.v["install_cni"].b
             THEN installIstioCNI(env, namespace, version, wait, timeout)
             ELSE Done(NoErr, <<>>)
      base == installIstioBase(env, namespace, version, wait, timeout)
      istiod == installIstiod(env, namespace, version, wait, timeout)
      gw == IF d.v["install_gateway"].b
            THEN installIstioGateway(env, gatewayNamespace, version, wait, timeout)
            ELSE Done(NoErr, <<>>)
      status == getIstioStatus(env, namespace)
      message ==
        <<"Istio successfully installed using Helm in namespace '", namespace, "'">>
        \o (IF version # "" THEN <<" (version: ", version, ")">> ELSE <<>>)
        \o (IF d.v["install_cni"].b THEN <<" with CNI node agent">> ELSE <<>>)
        \o (IF ~d.v["install_gateway"].b THEN <<>>
            ELSE IF ~gw.err.nil THEN <<". Warning: Gateway installation failed.">>
            ELSE <<". Ingress gateway installed in namespace '", gatewayNamespace, "'.">>)
        \o (IF status.err.nil /\ status.installed
            THEN <<" Istio control plane is ready.">>
            ELSE <<" Use check_istio_status to monitor the deployment status.">>)
  IN IF ~d.err.nil THEN InvalidParameters(d.err)
     ELSE IF ~helm.err.nil
     THEN Ret(ErrorResult(<<"Helm is not available: ">> \o helm.err.msg
                          \o <<". Please install Helm to use this feature.">>), helm.ops)
     ELSE IF ~repo.err.nil
     THEN Ret(ErrorResult(<<"Failed to add Istio Helm repository: ">> \o repo.err.msg),
              helm.ops \o repo.ops)
     ELSE IF ~cni.err.nil
     THEN Ret(ErrorResult(<<"Failed to install Istio CNI: ">> \o cni.err.msg),
              helm.ops \o repo.ops \o cni.ops)
     ELSE IF ~base.err.nil
     THEN Ret(ErrorResult(<<"Failed to install Istio base chart: ">> \o base.err.msg),
              helm.ops \o repo.ops \o cni.ops \o base.ops)
     ELSE IF ~istiod.err.nil
     THEN Ret(ErrorResult(<<"Failed to install Istio discovery chart: ">> \o istiod.err.msg),
              helm.ops \o repo.ops \o cni.ops \o base.ops \o istiod.ops)
     ELSE Ret(TextResult(message),
              helm.ops \o repo.ops \o cni.ops \o base.ops \o istiod.ops \o gw.ops
              \o status.ops)

UninstallIstioParams ==
  [namespace |-> "string", gateway_namespace |-> "string", uninstall_cni |-> "bool",
   delete_crds |-> "bool", wait |-> "bool", timeout |-> "string"]

UninstallIstio(args, env) ==
  LET d == Unmarshal(args, UninstallIstioParams)
      namespace == IF d.v["namespace"].s = "" THEN "istio-system" ELSE d.v["namespace"].s
      gatewayNamespace == IF d.v["gateway_namespace"].s = "" THEN "istio-ingress"
                          ELSE d.v["gateway_namespace"].s
      timeout == IF d.v["timeout"].s = "" THEN "5m" ELSE d.v["timeout"].s
      wait == TRUE
      helm == checkHelmAvailable(env)
      gw == uninstallIstioGateway(env, gatewayNamespace, wait, timeout)
      istiod == uninstallIstiod(env, namespace, wait, timeout)
      base == uninstallIstioBase(env, namespace, wait, timeout)
      cni == IF d.v["uninstall_cni"].b
             THEN uninstallIstioCNI(env, namespace, wait, timeout)
             ELSE Done(NoErr, <<>>)
      crds == IF d.v["delete_crds"].b THEN deleteIstioCRDs(env) ELSE Done(NoErr, <<>>)
      messages ==
        (IF ~gw.err.nil THEN <<"Warning: Gateway uninstall failed">>
         ELSE <<"Gateway uninstalled from namespace '", gatewayNamespace, "'">>)
        \o <<"Istio discovery (istiod) uninstalled", "Istio base uninstalled">>
        \o (IF ~d.v["uninstall_cni"].b THEN <<>>
            ELSE IF ~cni.err.nil THEN <<"Warning: CNI uninstall failed">>
            ELSE <<"Istio CNI uninstalled">>)
        \o (IF ~d.v["delete_crds"].b THEN <<>>
            ELSE IF ~crds.err.nil THEN <<"Warning: Failed to delete Istio CRDs">>
            ELSE <<"Istio CRDs deleted">>)
  IN IF ~d.err.nil THEN InvalidParameters(d.err)
     ELSE IF ~helm.err.nil
     THEN Ret(ErrorResult(<<"Helm is not available: ">> \o helm.err.msg
                          \o <<". Please install Helm to use this feature.">>), helm.ops)
     ELSE IF ~istiod.err.nil
     THEN Ret(ErrorResult(<<"Failed to uninstall Istio discovery: ">> \o istiod.err.msg),
              helm.ops \o gw.ops \o istiod.ops)
     ELSE IF ~base.err.nil
     THEN Ret(ErrorResult(<<"Failed to uninstall Istio base: ">> \o base.err.msg),
              helm.ops \o gw.ops \o istiod.ops \o base.ops)
     ELSE Ret(TextResult(<<"Istio successfully uninstalled using Helm. ">> \o messages),
              helm.ops \o gw.ops \o istiod.ops \o base.ops \o cni.ops \o crds.ops)

CheckIstioStatusParams == [namespace |-> "string"]

CheckIstioStatus(args, env) ==
  LET d == Unmarshal(args, CheckIstioStatusParams)
      namespace == IF d.v["namespace"].s = "" THEN "istio-system" ELSE d.v["namespace"].s
      status == getIstioStatus(env, namespace)
  IN IF ~d.err.nil THEN InvalidParameters(d.err)
     ELSE IF ~status.err.nil
     THEN Ret(ErrorResult(<<"Failed to get Istio status: ">> \o status.err.msg), status.ops)
     ELSE Ret(TextResult(MarshalIndent(status.text)), status.ops)

(***************************************************************************)
(* Sail operator handlers.                                                 *)
(***************************************************************************)
addSailOperatorHelmRepo(env) == addHelmRepo(env, "sail-operator")

installSailOperatorWithHelm(env, namespace, releaseName, version, wait, timeout) ==
  LET run == CallA(env, "helm.install:sail-operator",
                   <<releaseName, namespace, version, BoolStr(wait), timeout>>)
  IN IF ~run.err.nil THEN Done(Errorf("helm install failed: ", run.err), run.ops)
     ELSE Done(NoErr, run.ops)

uninstallSailOperatorWithHelm(env, namespace, releaseName, wait, timeout) ==
  LET run == CallA(env, "helm.uninstall:sail-operator",
                   <<releaseName, namespace, BoolStr(wait), timeout>>)
  IN IF ~run.err.nil THEN Done(Errorf("helm uninstall failed: ", run.err), run.ops)
     ELSE Done(NoErr, run.ops)

\* up to three deployment lists, each tried only if the one before found
\* nothing; a nil status goes with a non-nil error
getSailOperatorStatus(env, namespace) ==
  LET l1 == CallA(env, "deployments.list:component", <<namespace>>)
      l2 == CallA(env, "deployments.list:name", <<namespace>>)
      l3 == CallA(env, "deployments.list:app", <<namespace>>)
      hv == getIstioHelmReleaseVersion(env, namespace, "sail-operator")
      version == IF hv.err.nil THEN hv.version ELSE "unknown"
      ready(l) == l.out # "ok_notready"
      found(l, ops) ==
        [err |-> NoErr, ops |-> ops \o hv.ops, nil |-> FALSE, ready |-> ready(l),
         text |-> <<"installed", "true", "version", version, "namespace", namespace,
                    "ready", BoolStr(ready(l))>>]
      failed(prefix, l, ops) ==
        [err |-> Errorf(prefix, l.err), ops |-> ops, nil |-> TRUE, ready |-> FALSE,
         text |-> <<>>]
  IN IF ~l1.err.nil THEN failed("failed to list deployments: ", l1, l1.ops)
     ELSE IF l1.out # "ok_empty" THEN found(l1, l1.ops)
     ELSE IF ~l2.err.nil
     THEN failed("failed to list deployments with second selector: ", l2, l1.ops \o l2.ops)
     ELSE IF l2.out # "ok_empty" THEN found(l2, l1.ops \o l2.ops)
     ELSE IF ~l3.err.nil
     THEN failed("failed to list deployments with fallback selector: ", l3,
                 l1.ops \o l2.ops \o l3.ops)
     ELSE IF l3.out # "ok_empty" THEN found(l3, l1.ops \o l2.ops \o l3.ops)
     ELSE [err |-> NoErr, ops |-> l1.ops \o l2.ops \o l3.ops, nil |-> FALSE,
           ready |-> FALSE,
           text |-> <<"installed", "false", "namespace", namespace,
                      "issues", "Sail operator deployment not found">>]

InstallSailOperatorParams ==
  [namespace |-> "string", version |-> "string", release_name |-> "string",
   values |-> "map", wait |-> "bool", timeout |-> "string"]

InstallSailOperator(args, env) ==
  LET d == Unmarshal(args, InstallSailOperatorParams)
      namespace == IF d.v["namespace"].s = "" THEN "sail-operator" ELSE d.v["namespace"].s
      releaseName == IF d.v["release_name"].s = "" THEN "sail-operator"
                     ELSE d.v["release_name"].s
      timeout == IF d.v["timeout"].s = "" THEN "5m" ELSE d.v["timeout"].s
      wait == TRUE
      version == d.v["version"].s
      helm == checkHelmAvailable(env)
      repo == addSailOperatorHelmRepo(env)
      inst == installSailOperatorWithHelm(env, namespace, releaseName, version, wait, timeout)
      status == getSailOperatorStatus(env, namespace)
      message ==
        <<"Sail operator successfully installed using Helm in namespace '", namespace,
          "' with release name '", releaseName, "'">>
        \o (IF version # "" THEN <<" (version: ", version, ")">> ELSE <<>>)
        \o (IF ~status.nil /\ status.ready THEN <<". Operator is ready and running.">>
            ELSE <<". Use check_sail_status to monitor the deployment status.">>)
  IN IF ~d.err.nil THEN InvalidParameters(d.err)
     ELSE IF ~helm.err.nil
     THEN Ret(ErrorResult(<<"Helm is not available: ">> \o helm.err.msg
                          \o <<". Please install Helm to use this feature.">>), helm.ops)
     ELSE IF ~repo.err.nil
     THEN Ret(ErrorResult(<<"Failed to add Sail operator Helm repository: ">>
                          \o repo.err.msg), helm.ops \o repo.ops)
     ELSE IF ~inst.err.nil
     THEN Ret(ErrorResult(<<"Failed to install Sail operator with Helm: ">> \o inst.err.msg),
              helm.ops \o repo.ops \o inst.ops)
     ELSE Ret(TextResult(message), helm.ops \o repo.ops \o inst.ops \o status.ops)

UninstallSailOperatorParams ==
  [namespace |-> "string", release_name |-> "string", wait |-> "bool",
   timeout |-> "string"]

UninstallSailOperator(args, env) ==
  LET d == Unmarshal(args, UninstallSailOperatorParams)
      namespace == IF d.v["namespace"].s = "" THEN "sail-operator" ELSE d.v["namespace"].s
      releaseName == IF d.v["release_name"].s = "" THEN "sail-operator"
                     ELSE d.v["release_name"].s
      timeout == IF d.v["timeout"].s = "" THEN "5m" ELSE d.v["timeout"].s
      wait == TRUE
      helm == checkHelmAvailable(env)
      un == uninstallSailOperatorWithHelm(env, namespace, releaseName, wait, timeout)
  IN IF ~d.err.nil THEN InvalidParameters(d.err)
     ELSE IF ~helm.err.nil
     THEN Ret(ErrorResult(<<"Helm is not available: ">> \o helm.err.msg
                          \o <<". Please install Helm to use this feature.">>), helm.ops)
     ELSE IF ~un.err.nil
     THEN Ret(ErrorResult(<<"Failed to uninstall Sail operator with Helm: ">> \o un.err.msg),
              helm.ops \o un.ops)
     ELSE Ret(TextResult(<<"Sail operator successfully uninstalled from namespace '",
                           namespace, "' (release: ", releaseName, ")">>),
              helm.ops \o un.ops)

CheckSailStatusParams == [namespace |-> "string"]

CheckSailStatus(args, env) ==
  LET d == Unmarshal(args, CheckSailStatusParams)
      namespace == IF d.v["namespace"].s = "" THEN "sail-operator" ELSE d.v["namespace"].s
      status == getSailOperatorStatus(env, namespace)
  IN IF ~d.err.nil THEN InvalidParameters(d.err)
     ELSE IF ~status.err.nil
     THEN Ret(ErrorResult(<<"Failed to get Sail operator status: ">> \o status.err.msg),
              status.ops)
     ELSE Ret(TextResult(MarshalIndent(status.text)), status.ops)

(***************************************************************************)
(* Logging, exec and connectivity handlers.                                *)
(***************************************************************************)
\* execCommandInPod: the error is wrapped as "command failed: ..", the output
\* is what the command wrote; tag names the call site
execCommandInPod(env, tag, namespace, podName, containerName, command) ==
  LET run == CallA(env, "exec:" \o tag, <<namespace, podName, containerName>> \o command)
  IN [err |-> IF run.err.nil THEN NoErr ELSE Errorf("command failed: ", run.err),
      ops |-> run.ops, out |-> run.out]

\* durations time.ParseDuration accepts, among the strings the model uses
ValidDurations == {"1h", "30m", "5m", "10m"}

\* the longest log stream a container answers with
MaxLogLines == 4

\* the number of lines of the stream behind outcome out of pods.logs
StreamLines(out) ==
  IF out = "ok" THEN 1 ELSE CHOOSE n \in 0..MaxLogLines : out = "ok_lines" \o ToString(n)

\* processLogs: the scanner loop stops at maxLines lines; the line count and
\* the truncated flag of the LogResult
processLogs(streamLines, maxLines) ==
  LET lineCount == IF maxLines <= 0 THEN 0
                   ELSE IF streamLines < maxLines THEN streamLines ELSE maxLines
  IN [Lines |-> lineCount, Truncated |-> lineCount >= maxLines]

GetPodLogsParams ==
  [pod_name |-> "string", namespace |-> "string", container |-> "string",
   lines |-> "int", since |-> "string", follow |-> "bool", previous |-> "bool",
   timestamps |-> "bool", parse_logs |-> "bool", max_lines |-> "int"]

GetPodLogs(args, env) ==
  LET d == Unmarshal(args, GetPodLogsParams)
      podName == d.v["pod_name"].s
      namespace == IF d.v["namespace"].s = "" THEN "default" ELSE d.v["namespace"].s
      lines == IF d.v["lines"].n = 0 THEN 100 ELSE d.v["lines"].n
      maxLines == IF d.v["max_lines"].n = 0 THEN 1000 ELSE d.v["max_lines"].n
      pod == CallA(env, "pods.get", <<namespace, podName>>)
      container == IF d.v["container"].s = "" THEN "container-0" ELSE d.v["container"].s
      stream == CallA(env, "pods.logs", <<namespace, podName, container, ToString(lines)>>)
      read == Call(env, "logs.read")
      result == processLogs(StreamLines(stream.out), maxLines)
  IN IF ~d.err.nil THEN InvalidParameters(d.err)
     ELSE IF ~pod.err.nil
     THEN Ret(ErrorResult(<<"Failed to get pod: ">> \o pod.err.msg), pod.ops)
     ELSE IF d.v["container"].s = "" /\ pod.out = "ok_empty"
     THEN Ret(ErrorResult(<<"No containers found in pod">>), pod.ops)
     ELSE IF d.v["since"].s # "" /\ d.v["since"].s \notin ValidDurations
     THEN Ret(ErrorResult(<<"Invalid duration format: ", "time: invalid duration ",
                            d.v["since"].s>>), pod.ops)
     ELSE IF ~stream.err.nil
     THEN Ret(ErrorResult(<<"Failed to get logs: ">> \o stream.err.msg),
              pod.ops \o stream.ops)
     ELSE IF ~read.err.nil
     THEN Ret(ErrorResult(<<"Failed to process logs: ", "error reading logs: ">>
                          \o read.err.msg), pod.ops \o stream.ops \o read.ops)
     ELSE Ret(TextResult(MarshalIndent(
                <<"pod", podName, "namespace", namespace, "container", container,
                  "lines", ToString(result.Lines)>>
                \o (IF result.Truncated THEN <<"truncated", "true">> ELSE <<>>))),
              pod.ops \o stream.ops \o read.ops)

GetIstioProxyLogsParams ==
  [pod_name |-> "string", namespace |-> "string", lines |-> "int", since |-> "string",
   log_level |-> "string"]

\* decodes its own struct, then calls GetPodLogs with a payload it builds
GetIstioProxyLogs(args, env) ==
  LET d == Unmarshal(args, GetIstioProxyLogsParams)
      namespace == IF d.v["namespace"].s = "" THEN "default" ELSE d.v["namespace"].s
      lines == IF d.v["lines"].n = 0 THEN 100 ELSE d.v["lines"].n
      base == [pod_name |-> d.v["pod_name"], namespace |-> JStr(namespace),
               container |-> JStr("istio-proxy"), lines |-> JNum(lines),
               timestamps |-> JBool(TRUE), parse_logs |-> JBool(TRUE)]
      proxyLogsArgs == IF d.v["since"].s # "" THEN base @@ [since |-> d.v["since"]]
                       ELSE base
  IN IF ~d.err.nil THEN InvalidParameters(d.err)
     ELSE GetPodLogs(RawObject(proxyLogsArgs), env)

ExecPodCommandParams ==
  [pod_name |-> "string", namespace |-> "string", container |-> "string",
   command |-> "[]string", interactive |-> "bool", timeout |-> "int"]

\* a failed exec is reported inside a result whose IsError stays false
ExecPodCommand(args, env) ==
  LET d == Unmarshal(args, ExecPodCommandParams)
      podName == d.v["pod_name"].s
      namespace == IF d.v["namespace"].s = "" THEN "default" ELSE d.v["namespace"].s
      lookup == d.v["container"].s = ""
      pod == CallA(env, "pods.get", <<namespace, podName>>)
      podOps == IF lookup THEN pod.ops ELSE <<>>
      container == IF lookup THEN "container-0" ELSE d.v["container"].s
      command == d.v["command"].a
      run == execCommandInPod(env, "command", namespace, podName, container, command)
  IN IF ~d.err.nil THEN InvalidParameters(d.err)
     ELSE IF lookup /\ ~pod.err.nil
     THEN Ret(ErrorResult(<<"Failed to get pod: ">> \o pod.err.msg), pod.ops)
     ELSE IF lookup /\ pod.out = "ok_empty"
     THEN Ret(ErrorResult(<<"No containers found in pod">>), pod.ops)
     ELSE IF Len(command) = 0
     THEN Ret(ErrorResult(<<"Command", " is required">>), podOps)
     ELSE IF ~run.err.nil
     THEN Ret(TextResult(MarshalIndent(<<"pod", podName, "success", "false", "error">>
                                       \o run.err.msg)), podOps \o run.ops)
     ELSE Ret(TextResult(MarshalIndent(<<"pod", podName, "success", "true",
                                         "output", "stdout">>)), podOps \o run.ops)

\* what the curl output of an exec outcome carries after "HTTP_CODE:"
\* (0: no HTTP_CODE in the output)
HttpCode(out) ==
  CASE out = "ok" -> 200
    [] out = "ok_http399" -> 399
    [] out = "ok_http400" -> 400
    [] out = "ok_http500" -> 500
    [] OTHER -> 0

\* a ConnectivityTestResult whose success is not revised by the status code
ConnectivityTestResultUnrevised(run, isHttp) ==
  LET code == IF isHttp THEN HttpCode(run.out) ELSE 0
  IN IF ~run.err.nil
     THEN [success |-> FALSE, status_code |-> 0, error |-> run.err.msg]
     ELSE [success |-> TRUE, status_code |-> code, error |-> <<>>]

\* one ConnectivityTestResult from an exec: success, status_code, error
ConnectivityTestResult(run, isHttp) ==
  LET code == IF isHttp THEN HttpCode(run.out) ELSE 0
  IN IF ~run.err.nil
     THEN [success |-> FALSE, status_code |-> 0, error |-> run.err.msg]
     ELSE [success |-> IF code # 0 THEN code >= 200 /\ code < 400 ELSE TRUE,
           status_code |-> code, error |-> <<>>]

TestConnectivityParams ==
  [source_pod |-> "string", source_namespace |-> "string", target_service |-> "string",
   target_port |-> "int", protocol |-> "string", path |-> "string", timeout |-> "int",
   method |-> "string"]

\* after the exec has been attempted the result is never an error result
TestConnectivity(args, env) ==
  LET d == Unmarshal(args, TestConnectivityParams)
      sourcePod == d.v["source_pod"].s
      sourceNamespace == IF d.v["source_namespace"].s = "" THEN "default"
                         ELSE d.v["source_namespace"].s
      protocol == IF d.v["protocol"].s = "" THEN "http" ELSE d.v["protocol"].s
      timeout == IF d.v["timeout"].n = 0 THEN 10 ELSE d.v["timeout"].n
      pod == CallA(env, "pods.get", <<sourceNamespace, sourcePod>>)
      command == IF protocol = "tcp"
                 THEN <<"nc", ToString(timeout), d.v["target_service"].s,
                        ToString(d.v["target_port"].n)>>
                 ELSE <<"curl", ToString(timeout), protocol, d.v["target_service"].s,
                        ToString(d.v["target_port"].n)>>
      run == execCommandInPod(env, "connectivity", sourceNamespace, sourcePod, "sleep",
                              command)
      result == ConnectivityTestResult(run, protocol \in {"http", "https"})
      status == IF result.success THEN "SUCCESS" ELSE "FAILED"
  IN IF ~d.err.nil THEN InvalidParameters(d.err)
     ELSE IF sourcePod = ""
     THEN Ret(ErrorResult(<<"source_pod", " is required">>), <<>>)
     ELSE IF d.v["target_service"].s = ""
     THEN Ret(ErrorResult(<<"target_service", " is required">>), <<>>)
     ELSE IF d.v["target_port"].n = 0
     THEN Ret(ErrorResult(<<"target_port", " is required">>), <<>>)
     ELSE IF ~pod.err.nil
     THEN Ret(ErrorResult(<<"Failed to get source pod: ">> \o pod.err.msg), pod.ops)
     ELSE IF protocol \notin {"http", "https", "tcp"}
     THEN Ret(ErrorResult(<<"Unsupported protocol: ", protocol>>), pod.ops)
     ELSE Ret(TextResult(MarshalIndent(
                <<"summary", "Connectivity test from ", sourcePod, " to ",
                  d.v["target_service"].s, ": ", status,
                  "success", BoolStr(result.success),
                  "status_code", ToString(result.status_code), "error">>
                \o result.error)),
              pod.ops \o run.ops)

TestSleepToHttpbinParams ==
  [source_namespace |-> "string", target_namespace |-> "string",
   test_endpoints |-> "[]string", timeout |-> "int"]

DefaultTestEndpoints == <<"/get", "/headers", "/status/200", "/delay/1">>

TestSleepToHttpbin(args, env) ==
  LET d == Unmarshal(args, TestSleepToHttpbinParams)
      sourceNamespace == IF d.v["source_namespace"].s = "" THEN "default"
                         ELSE d.v["source_namespace"].s
      targetNamespace == IF d.v["target_namespace"].s = "" THEN "default"
                         ELSE d.v["target_namespace"].s
      timeout == IF d.v["timeout"].n = 0 THEN 10 ELSE d.v["timeout"].n
      endpoints == IF Len(d.v["test_endpoints"].a) = 0 THEN DefaultTestEndpoints
                   ELSE d.v["test_endpoints"].a
      pods == CallA(env, "pods.list", <<sourceNamespace, "app=sleep">>)
      svc == CallA(env, "services.get", <<targetNamespace, "httpbin">>)
      run(i) == execCommandInPod(env, endpoints[i], sourceNamespace, "sleep-pod-0",
                                 "sleep", <<"curl", ToString(timeout), endpoints[i]>>)
      n == Len(endpoints)
      runOps == [i \in 1..n |-> run(i).ops[1]]
      successful == Cardinality({i \in 1..n : ConnectivityTestResult(run(i), TRUE).success})
  IN IF ~d.err.nil THEN InvalidParameters(d.err)
     ELSE IF ~pods.err.nil
     THEN Ret(ErrorResult(<<"Failed to list sleep pods: ">> \o pods.err.msg), pods.ops)
     ELSE IF pods.out = "ok_empty"
     THEN Ret(ErrorResult(<<"No sleep pods found">>), pods.ops)
     ELSE IF ~svc.err.nil
     THEN RetP(ErrorResult(<<"Failed to get httpbin service: ">> \o svc.err.msg),
               pods.ops \o svc.ops, pods.out = "ok_empty")
     ELSE RetP(TextResult(MarshalIndent(
                 <<"summary", "Sleep to Httpbin connectivity test completed: ",
                   ToString(successful), "/", ToString(n), " tests successful">>)),
               pods.ops \o svc.ops \o runOps,
               \* sleepPods.Items[0]
               pods.out = "ok_empty")

(***************************************************************************)
(* Network debugging handlers.                                             *)
(***************************************************************************)
\* seconds the log polling of getIptablesWithDebug goes on, and its pause
maxWaitTime == 30
waitInterval == 2

\* time.Now().Unix() when the invocation begins
StartTime == 1700000000

\* the seconds the clock moves while one table is queried without a sleep:
\* the subprocesses take about a second ("ok") or finish within the second
\* the clock showed before them ("ok_same")
Tick(env) == IF Out(env, "time.now") = "ok_same" THEN 0 ELSE 1

\* getIptablesWithDebug when time.Now().Unix() gives now: the ephemeral
\* container is named after that second
getIptablesWithDebug(env, namespace, podName, table, now) ==
  LET debugContainerName == "debug-iptables-" \o ToString(now)
      debug == CallA(env, "kubectl.debug:" \o table,
                     <<podName, namespace, table, debugContainerName>>)
      name == "kubectl.logs:" \o table
      o == Out(env, name)
      attempt(out) == Op(name, <<podName, namespace, debugContainerName>>, out)
      attempts == maxWaitTime \div waitInterval
      polls == CASE o = "ok" -> <<attempt("ok")>>
                 [] o = "ok_late" -> <<attempt("error"), attempt("ok")>>
                 [] o = "ok_empty" -> [i \in 1..attempts |-> attempt("ok_empty")]
                 [] OTHER -> [i \in 1..attempts |-> attempt("error")]
  IN IF ~debug.err.nil
     THEN [err |-> Errorf("failed to create ephemeral container: ", debug.err),
           ops |-> debug.ops, output |-> ""]
     ELSE IF o = "error"
     THEN [err |-> NewErr(<<"failed to get logs from ephemeral container after ",
                            ToString(maxWaitTime), "s: ", ErrMsg(name, o)>>),
           ops |-> debug.ops \o polls, output |-> ""]
     ELSE [err |-> NoErr, ops |-> debug.ops \o polls,
           output |-> IF o = "ok_empty" THEN "" ELSE "rules of " \o table]

GetIptablesRulesParams ==
  [pod_name |-> "string", namespace |-> "string", container |-> "string",
   tables |-> "[]string", verbose |-> "bool"]

DefaultTables == <<"filter", "nat", "mangle">>

\* the per-table pieces of the loop over params.Tables, in order
RECURSIVE Flatten(_)
Flatten(seqs) == IF seqs = <<>> THEN <<>> ELSE Head(seqs) \o Flatten(Tail(seqs))

\* the seconds slept in the polls ops holds: every poll but one that gave
\* output is followed by time.Sleep(waitInterval)
Slept(ops) ==
  waitInterval * Cardinality({j \in 1..Len(ops) :
                                /\ ops[j].op \notin {"kubectl.debug:" \o t : t \in {"filter", "nat", "mangle", "raw"}}
                                /\ ops[j].out # "ok"})

\* time.Now().Unix() when the loop over the tables reaches table i
RECURSIVE UnixAt(_, _, _, _, _)
UnixAt(env, namespace, podName, tables, i) ==
  IF i = 1 THEN StartTime
  ELSE LET before == UnixAt(env, namespace, podName, tables, i - 1)
       IN before + Tick(env)
          + Slept(getIptablesWithDebug(env, namespace, podName, tables[i - 1], before).ops)

\* a table whose query failed is recorded as "Error: .." in a non-error result
GetIptablesRules(args, env) ==
  LET d == Unmarshal(args, GetIptablesRulesParams)
      podName == d.v["pod_name"].s
      namespace == IF d.v["namespace"].s = "" THEN "default" ELSE d.v["namespace"].s
      tables == IF Len(d.v["tables"].a) = 0 THEN DefaultTables ELSE d.v["tables"].a
      pod == CallA(env, "pods.get", <<namespace, podName>>)
      q(i) == getIptablesWithDebug(env, namespace, podName, tables[i],
                                   UnixAt(env, namespace, podName, tables, i))
      entry(i) == IF ~q(i).err.nil THEN <<tables[i], "Error: ">> \o q(i).err.msg
                  ELSE <<tables[i], q(i).output>>
  IN IF ~d.err.nil THEN InvalidParameters(d.err)
     ELSE IF ~pod.err.nil
     THEN Ret(ErrorResult(<<"Failed to get pod: ">> \o pod.err.msg), pod.ops)
     ELSE Ret(TextResult(MarshalIndent(<<"pod", podName, "namespace", namespace, "tables">>
                \o Flatten([i \in 1..Len(tables) |-> entry(i)]))),
              pod.ops \o Flatten([i \in 1..Len(tables) |-> q(i).ops]))

\* label selectors and the network policies the namespace holds
Selector(matchLabels, matchExpressions) ==
  [MatchLabels |-> matchLabels, MatchExpressions |-> matchExpressions]

NoLabels == [key \in {} |-> ""]

Policy(name, selector) == [Name |-> name, PodSelector |-> selector]

Items ==
  <<Policy("all-pods", Selector(NoLabels, <<>>)),
    Policy("sleep-only", Selector([app |-> "sleep"], <<>>)),
    Policy("httpbin-only", Selector([app |-> "httpbin"], <<>>)),
    Policy("unversioned", Selector([version |-> ""], <<>>)),
    Policy("not-legacy",
           Selector(NoLabels, <<[Key |-> "tier", Operator |-> "NotIn", Values |-> {"legacy"}]>>)),
    Policy("tiered",
           Selector(NoLabels, <<[Key |-> "tier", Operator |-> "Exists", Values |-> {}]>>))>>

\* pod.Labels behind an outcome of the Get of the pod: a nil map for a pod
\* without labels
Labels(out) ==
  CASE out = "ok_nolabels" -> [nil |-> TRUE, map |-> NoLabels]
    [] out = "ok_httpbin" -> [nil |-> FALSE, map |-> [app |-> "httpbin", tier |-> "legacy"]]
    [] OTHER -> [nil |-> FALSE, map |-> [app |-> "sleep"]]

\* a Go map read: the zero value for a key the map does not hold
Lookup(map, key) == IF key \in DOMAIN map THEN map[key] ELSE ""

policyAppliesToPod(selector, podLabels) ==
  LET ok(expr) ==
        LET exists == expr.Key \in DOMAIN podLabels
            podValue == Lookup(podLabels, expr.Key)
        IN CASE expr.Operator = "In" -> exists /\ podValue \in expr.Values
             [] expr.Operator = "NotIn" -> ~(exists /\ podValue \in expr.Values)
             [] expr.Operator = "Exists" -> exists
             [] expr.Operator = "DoesNotExist" -> ~exists
             [] OTHER -> TRUE
  IN \/ DOMAIN selector.MatchLabels = {} /\ selector.MatchExpressions = <<>>
     \/ /\ \A key \in DOMAIN selector.MatchLabels :
              Lookup(podLabels, key) = selector.MatchLabels[key]
        /\ \A i \in 1..Len(selector.MatchExpressions) : ok(selector.MatchExpressions[i])

\* the elements of seq whose flag in keep is set, in order
RECURSIVE Select(_, _)
Select(seq, keep) ==
  IF seq = <<>> THEN <<>>
  ELSE (IF Head(keep) THEN <<Head(seq)>> ELSE <<>>) \o Select(Tail(seq), Tail(keep))

GetNetworkPoliciesParams ==
  [namespace |-> "string", pod_name |-> "string", label_selector |-> "string"]

\* a failed Get of the pod is logged and the list is returned unfiltered
GetNetworkPolicies(args, env) ==
  LET d == Unmarshal(args, GetNetworkPoliciesParams)
      podName == d.v["pod_name"].s
      namespace == IF d.v["namespace"].s = "" THEN "default" ELSE d.v["namespace"].s
      list == CallA(env, "networkpolicies.list", <<namespace, d.v["label_selector"].s>>)
      pod == CallA(env, "pods.get:labels", <<namespace, podName>>)
      items == IF list.out = "ok_empty" THEN <<>> ELSE Items
      podLabels == IF podName # "" /\ pod.err.nil THEN Labels(pod.out)
                   ELSE [nil |-> TRUE, map |-> NoLabels]
      kept(policy) ==
        ~(podName # "" /\ ~podLabels.nil)
        \/ policyAppliesToPod(policy.PodSelector, podLabels.map)
      policyInfos == Select(items, [i \in 1..Len(items) |-> kept(items[i])])
      policies == <<"count", ToString(Len(policyInfos)), "policies">>
                  \o [i \in 1..Len(policyInfos) |-> policyInfos[i].Name]
  IN IF ~d.err.nil THEN InvalidParameters(d.err)
     ELSE IF ~list.err.nil
     THEN Ret(ErrorResult(<<"Failed to list network policies: ">> \o list.err.msg), list.ops)
     ELSE IF podName # ""
     THEN Ret(TextResult(MarshalIndent(<<"namespace", namespace, "filtered_for_pod",
                                         podName>> \o policies)), list.ops \o pod.ops)
     ELSE Ret(TextResult(MarshalIndent(<<"namespace", namespace>> \o policies)), list.ops)

TraceNetworkPathParams ==
  [source_pod |-> "string", source_namespace |-> "string", target_pod |-> "string",
   target_namespace |-> "string", target_host |-> "string", target_port |-> "int",
   max_hops |-> "int"]

\* tracepath is tried once when traceroute fails; the two diagnostics of
\* addNetworkDiagnostics follow in every case and their errors are dropped
TraceNetworkPath(args, env) ==
  LET d == Unmarshal(args, TraceNetworkPathParams)
      sourcePod == d.v["source_pod"].s
      sourceNamespace == IF d.v["source_namespace"].s = "" THEN "default"
                         ELSE d.v["source_namespace"].s
      targetNamespace == IF d.v["target_namespace"].s = "" THEN "default"
                         ELSE d.v["target_namespace"].s
      maxHops == IF d.v["max_hops"].n = 0 THEN 30 ELSE d.v["max_hops"].n
      src == CallA(env, "pods.get", <<sourceNamespace, sourcePod>>)
      byPod == d.v["target_pod"].s # ""
      tgt == CallA(env, "pods.get:target", <<targetNamespace, d.v["target_pod"].s>>)
      tgtOps == IF byPod THEN tgt.ops ELSE <<>>
      targetHost == IF byPod THEN "pod-ip" ELSE d.v["target_host"].s
      route == execCommandInPod(env, "traceroute", sourceNamespace, sourcePod, "sleep",
                                <<"traceroute", ToString(maxHops), targetHost>>)
      path == execCommandInPod(env, "tracepath", sourceNamespace, sourcePod, "sleep",
                               <<"tracepath", targetHost>>)
      last == IF route.err.nil THEN route ELSE path
      traceOps == IF route.err.nil THEN route.ops ELSE route.ops \o path.ops
      iproute == execCommandInPod(env, "ip route", sourceNamespace, sourcePod, "sleep",
                                  <<"ip", "route">>)
      ipaddr == execCommandInPod(env, "ip addr", sourceNamespace, sourcePod, "sleep",
                                 <<"ip", "addr">>)
  IN IF ~d.err.nil THEN InvalidParameters(d.err)
     ELSE IF ~src.err.nil
     THEN Ret(ErrorResult(<<"Failed to get source pod: ">> \o src.err.msg), src.ops)
     ELSE IF byPod /\ ~tgt.err.nil
     THEN Ret(ErrorResult(<<"Failed to get target pod: ">> \o tgt.err.msg),
              src.ops \o tgt.ops)
     ELSE IF ~byPod /\ d.v["target_host"].s = ""
     THEN Ret(ErrorResult(<<"Either ", "target_pod", " or ", "target_host",
                            " must be specified">>), src.ops)
     ELSE Ret(TextResult(MarshalIndent(
                <<"source", sourcePod, "destination", targetHost,
                  "success", BoolStr(last.err.nil), "issues">>
                \o (IF last.err.nil THEN <<>>
                    ELSE <<"Traceroute failed: ">> \o last.err.msg))),
              src.ops \o tgtOps \o traceOps \o iproute.ops \o ipaddr.ops)

(***************************************************************************)
(* The schema registry (mcp.GetToolDefinitions): for each registered tool  *)
(* the advertised properties and the list of required ones.                *)
(***************************************************************************)
\* a property without and with a default, and one restricted to an enumeration
P(type) == [Type |-> type, HasDefault |-> FALSE, Default |-> JNull, Enum |-> {}]

PD(type, default) == [Type |-> type, HasDefault |-> TRUE, Default |-> default, Enum |-> {}]

PE(type, default, enum) ==
  [Type |-> type, HasDefault |-> TRUE, Default |-> default, Enum |-> enum]

\* createObjectSchema(properties, required)
createObjectSchema(properties, required) ==
  [Properties |-> properties, Required |-> required]

GetToolDefinitions ==
  [list_contexts |-> createObjectSchema(<<>>, {}),
   switch_context |-> createObjectSchema([context |-> P("string")], {"context"}),
   get_cluster_info |-> createObjectSchema(<<>>, {}),
   install_istio |-> createObjectSchema(
     [version |-> PD("string", JStr("latest")), values |-> P("string"),
      install_gateway |-> PD("boolean", JBool(FALSE)),
      gateway_namespace |-> PD("string", JStr("istio-ingress")),
      install_cni |-> PD("boolean", JBool(FALSE)), cni_values |-> P("string"),
      timeout |-> PD("string", JStr("10m")), wait |-> PD("boolean", JBool(TRUE))], {}),
   uninstall_istio |-> createObjectSchema(
     [delete_crds |-> PD("boolean", JBool(FALSE)),
      uninstall_cni |-> PD("boolean", JBool(FALSE)),
      timeout |-> PD("string", JStr("10m"))], {}),
   check_istio_status |-> createObjectSchema(
     [namespace |-> PD("string", JStr("istio-system"))], {}),
   install_sail_operator |-> createObjectSchema(
     [version |-> PD("string", JStr("latest")),
      release_name |-> PD("string", JStr("sail-operator")), values |-> P("string"),
      timeout |-> PD("string", JStr("10m")), wait |-> PD("boolean", JBool(TRUE))], {}),
   uninstall_sail_operator |-> createObjectSchema(
     [release_name |-> PD("string", JStr("sail-operator")),
      timeout |-> PD("string", JStr("10m"))], {}),
   check_sail_status |-> createObjectSchema(
     [namespace |-> PD("string", JStr("sail-operator"))], {}),
   deploy_sleep_app |-> createObjectSchema([namespace |-> PD("string", JStr("default"))], {}),
   deploy_httpbin_app |-> createObjectSchema([namespace |-> PD("string", JStr("default"))], {}),
   undeploy_sleep_app |-> createObjectSchema([namespace |-> PD("string", JStr("default"))], {}),
   undeploy_httpbin_app |-> createObjectSchema([namespace |-> PD("string", JStr("default"))], {}),
   test_connectivity |-> createObjectSchema(
     [source_pod |-> P("string"), source_namespace |-> PD("string", JStr("default")),
      target_service |-> P("string"), target_port |-> P("integer"),
      protocol |-> PE("string", JStr("http"), {"http", "https", "tcp"})],
     {"source_pod", "target_service", "target_port"}),
   test_sleep_to_httpbin |-> createObjectSchema(
     [sleep_namespace |-> PD("string", JStr("default")),
      httpbin_namespace |-> PD("string", JStr("default")),
      path |-> PD("string", JStr("/get"))], {}),
   get_pod_logs |-> createObjectSchema(
     [pod_name |-> P("string"), namespace |-> PD("string", JStr("default")),
      container |-> P("string"), tail_lines |-> PD("integer", JNum(100)),
      follow |-> PD("boolean", JBool(FALSE))], {"pod_name"}),
   get_istio_proxy_logs |-> createObjectSchema(
     [pod_name |-> P("string"), namespace |-> PD("string", JStr("default")),
      tail_lines |-> PD("integer", JNum(100))], {"pod_name"}),
   exec_pod_command |-> createObjectSchema(
     [pod_name |-> P("string"), namespace |-> PD("string", JStr("default")),
      container |-> P("string"), command |-> P("array")], {"pod_name", "command"}),
   get_iptables_rules |-> createObjectSchema(
     [pod_name |-> P("string"), namespace |-> PD("string", JStr("default")),
      table |-> PE("string", JStr("filter"), {"filter", "nat", "mangle", "raw"})],
     {"pod_name"}),
   get_network_policies |-> createObjectSchema([namespace |-> P("string")], {}),
   trace_network_path |-> createObjectSchema(
     [source_pod |-> P("string"), source_namespace |-> PD("string", JStr("default")),
      target_ip |-> P("string"), target_port |-> P("integer")],
     {"source_pod", "target_ip"})]

\* the keys of the definitions: the names RegisterAllTools wraps handlers for
RegisterAllTools == DOMAIN GetToolDefinitions

\* the Name fields with those of install_istio and uninstall_istio exchanged
NameCrossed ==
  [list_contexts |-> "list_contexts", switch_context |-> "switch_context",
   get_cluster_info |-> "get_cluster_info", install_istio |-> "uninstall_istio",
   uninstall_istio |-> "install_istio", check_istio_status |-> "check_istio_status",
   install_sail_operator |-> "install_sail_operator", uninstall_sail_operator |-> "uninstall_sail_operator",
   check_sail_status |-> "check_sail_status", deploy_sleep_app |-> "deploy_sleep_app",
   deploy_httpbin_app |-> "deploy_httpbin_app", undeploy_sleep_app |-> "undeploy_sleep_app",
   undeploy_httpbin_app |-> "undeploy_httpbin_app", test_connectivity |-> "test_connectivity",
   test_sleep_to_httpbin |-> "test_sleep_to_httpbin", get_pod_logs |-> "get_pod_logs",
   get_istio_proxy_logs |-> "get_istio_proxy_logs", exec_pod_command |-> "exec_pod_command",
   get_iptables_rules |-> "get_iptables_rules", get_network_policies |-> "get_network_policies",
   trace_network_path |-> "trace_network_path"]

\* the Name field of the definition under each key: the name the tool is
\* advertised and called under
Name ==
  [list_contexts |-> "list_contexts", switch_context |-> "switch_context",
   get_cluster_info |-> "get_cluster_info", install_istio |-> "install_istio",
   uninstall_istio |-> "uninstall_istio", check_istio_status |-> "check_istio_status",
   install_sail_operator |-> "install_sail_operator", uninstall_sail_operator |-> "uninstall_sail_operator",
   check_sail_status |-> "check_sail_status", deploy_sleep_app |-> "deploy_sleep_app",
   deploy_httpbin_app |-> "deploy_httpbin_app", undeploy_sleep_app |-> "undeploy_sleep_app",
   undeploy_httpbin_app |-> "undeploy_httpbin_app", test_connectivity |-> "test_connectivity",
   test_sleep_to_httpbin |-> "test_sleep_to_httpbin", get_pod_logs |-> "get_pod_logs",
   get_istio_proxy_logs |-> "get_istio_proxy_logs", exec_pod_command |-> "exec_pod_command",
   get_iptables_rules |-> "get_iptables_rules", get_network_policies |-> "get_network_policies",
   trace_network_path |-> "trace_network_path"]

\* server.AddTool(toolDef, tw.WrapTool(toolName)) for every definition: the
\* advertised name and the tool name its handler is bound to
AddTool == {[Name |-> Name[toolName], toolName |-> toolName] : toolName \in RegisterAllTools}

\* the names main.go accepts after --tool
validTools ==
  {"list_contexts", "switch_context", "get_cluster_info",
   "install_istio", "uninstall_istio", "check_istio_status",
   "install_sail_operator", "uninstall_sail_operator", "check_sail_status",
   "deploy_sleep_app", "deploy_httpbin_app", "undeploy_sleep_app", "undeploy_httpbin_app",
   "test_connectivity", "test_sleep_to_httpbin",
   "get_pod_logs", "get_istio_proxy_logs", "exec_pod_command",
   "get_iptables_rules", "get_network_policies", "trace_network_path"}

isValidTool(toolName) == toolName \in validTools

(***************************************************************************)
(* The dispatcher (tools.Manager.ExecuteTool).                             *)
(***************************************************************************)
\* the external operations that do not go through m.k8sClient: the helm and
\* kubectl binaries, the kubeconfig file, the reading of an open log stream
LocalOps ==
  {"kubeconfig.load", "kubeconfig.write", "kubeconfig.current", "logs.read",
   "helm.version", "helm.list", "kubectl.get.crd", "kubectl.delete.crd"}
  \cup {"helm.repo.add:" \o r : r \in {"istio", "sail-operator"}}
  \cup {"helm.repo.update:" \o r : r \in {"istio", "sail-operator"}}
  \cup {"helm.install:" \o r :
          r \in {"istio-cni", "istio-base", "istiod", "istio-ingress", "sail-operator"}}
  \cup {"helm.uninstall:" \o r :
          r \in {"istio-cni", "istio-base", "istiod", "istio-ingress", "sail-operator"}}
  \cup {"kubectl.debug:" \o t : t \in {"filter", "nat", "mangle", "raw"}}
  \cup {"kubectl.logs:" \o t : t \in {"filter", "nat", "mangle", "raw"}}

\* the helm and kubectl runs that act on a cluster: they are started without
\* --kube-context or --context, so on the cluster of the kubeconfig's
\* current context at the time they run
FollowsKubeconfig ==
  LocalOps \ ({"kubeconfig.load", "kubeconfig.write", "kubeconfig.current", "logs.read",
               "helm.version"}
              \cup {"helm.repo.add:" \o r : r \in {"istio", "sail-operator"}}
              \cup {"helm.repo.update:" \o r : r \in {"istio", "sail-operator"}})

\* the cluster operation op acts on while the kubeconfig's current context
\* is context: m.k8sClient was built at startup and Client.SwitchContext
\* only logs, so an operation through the client stays on the startup cluster
Cluster(op, context) == IF op \in FollowsKubeconfig THEN context ELSE StartupContext

\* the handler toolName is routed to ran and would end as r with a client;
\* with a nil *k8s.Client it panics where it first goes through the client
Routed(handler, k8sClient, r) ==
  LET through == {i \in 1..Len(r.ops) : r.ops[i].op \notin LocalOps}
      first == CHOOSE i \in through : \A j \in through : i <= j
      deref == k8sClient = "nil" /\ through # {}
  IN [result |-> IF deref THEN NilResult ELSE r.result, err |-> r.err,
      ops |-> IF deref THEN SubSeq(r.ops, 1, first - 1) ELSE r.ops,
      panic |-> r.panic \/ deref, handler |-> handler]

\* a result ExecuteTool builds itself, without any handler
Direct(text) ==
  [result |-> ErrorResult(text), err |-> NoErr, ops |-> <<>>, panic |-> FALSE,
   handler |-> "none"]

ClientNotAvailable ==
  "Kubernetes client not available. Please ensure kubeconfig is properly configured."

\* the default case, with a diagnostic that leaves the name out
UnknownToolUnnamed(toolName) == Direct(<<"Unknown tool">>)

\* the default case of the switch
UnknownTool(toolName) == Direct(<<"Unknown tool: ", toolName>>)

\* the switch of ExecuteTool
Route(k8sClient, toolName, args, env) ==
  CASE toolName = "list_contexts" -> Routed("ListContexts", k8sClient, ListContexts(args, env))
    [] toolName = "switch_context" ->
         Routed("SwitchContext", k8sClient, SwitchContext(args, env))
    [] toolName = "get_cluster_info" ->
         Routed("GetClusterInfo", k8sClient, GetClusterInfo(args, env))
    [] toolName = "install_istio" -> Routed("InstallIstio", k8sClient, InstallIstio(args, env))
    [] toolName = "uninstall_istio" ->
         Routed("UninstallIstio", k8sClient, UninstallIstio(args, env))
    [] toolName = "check_istio_status" ->
         Routed("CheckIstioStatus", k8sClient, CheckIstioStatus(args, env))
    [] toolName = "install_sail_operator" ->
         Routed("InstallSailOperator", k8sClient, InstallSailOperator(args, env))
    [] toolName = "uninstall_sail_operator" ->
         Routed("UninstallSailOperator", k8sClient, UninstallSailOperator(args, env))
    [] toolName = "check_sail_status" ->
         Routed("CheckSailStatus", k8sClient, CheckSailStatus(args, env))
    [] toolName = "deploy_sleep_app" ->
         Routed("DeploySleepApp", k8sClient, DeploySleepApp(args, env))
    [] toolName = "deploy_httpbin_app" ->
         Routed("DeployHttpbinApp", k8sClient, DeployHttpbinApp(args, env))
    [] toolName = "undeploy_sleep_app" ->
         Routed("UndeploySleepApp", k8sClient, UndeploySleepApp(args, env))
    [] toolName = "undeploy_httpbin_app" ->
         Routed("UndeployHttpbinApp", k8sClient, UndeployHttpbinApp(args, env))
    [] toolName = "test_connectivity" ->
         Routed("TestConnectivity", k8sClient, TestConnectivity(args, env))
    [] toolName = "test_sleep_to_httpbin" ->
         Routed("TestSleepToHttpbin", k8sClient, TestSleepToHttpbin(args, env))
    [] toolName = "get_pod_logs" -> Routed("GetPodLogs", k8sClient, GetPodLogs(args, env))
    [] toolName = "get_istio_proxy_logs" ->
         Routed("GetIstioProxyLogs", k8sClient, GetIstioProxyLogs(args, env))
    [] toolName = "exec_pod_command" ->
         Routed("ExecPodCommand", k8sClient, ExecPodCommand(args, env))
    [] toolName = "get_iptables_rules" ->
         Routed("GetIptablesRules", k8sClient, GetIptablesRules(args, env))
    [] toolName = "get_network_policies" ->
         Routed("GetNetworkPolicies", k8sClient, GetNetworkPolicies(args, env))
    [] toolName = "trace_network_path" ->
         Routed("TraceNetworkPath", k8sClient, TraceNetworkPath(args, env))
    [] OTHER -> UnknownTool(toolName)

\* ExecuteTool without its check of the client
ExecuteToolUnguarded(k8sClient, toolName, args, env) ==
  Route(k8sClient, toolName, args, env)

ExecuteTool(k8sClient, toolName, args, env) ==
  IF k8sClient = "nil" THEN Direct(<<ClientNotAvailable>>)
  ELSE Route(k8sClient, toolName, args, env)

(***************************************************************************)
(* The inputs of an invocation: tool names, payloads, and how the external *)
(* operations end.                                                         *)
(***************************************************************************)
\* names no case of the switch matches
UnknownNames == {"bogus_tool", ""}

ToolNames == RegisterAllTools \cup validTools \cup UnknownNames

\* the struct a handler decodes its payload into (none: the payload is unread)
HandlerParams(toolName) ==
  CASE toolName = "switch_context" -> SwitchContextParams
    [] toolName = "install_istio" -> InstallIstioParams
    [] toolName = "uninstall_istio" -> UninstallIstioParams
    [] toolName = "check_istio_status" -> CheckIstioStatusParams
    [] toolName = "install_sail_operator" -> InstallSailOperatorParams
    [] toolName = "uninstall_sail_operator" -> UninstallSailOperatorParams
    [] toolName = "check_sail_status" -> CheckSailStatusParams
    [] toolName = "deploy_sleep_app" -> DeploySleepAppParams
    [] toolName = "deploy_httpbin_app" -> DeployHttpbinAppParams
    [] toolName \in {"undeploy_sleep_app", "undeploy_httpbin_app"} -> UndeployParams
    [] toolName = "test_connectivity" -> TestConnectivityParams
    [] toolName = "test_sleep_to_httpbin" -> TestSleepToHttpbinParams
    [] toolName = "get_pod_logs" -> GetPodLogsParams
    [] toolName = "get_istio_proxy_logs" -> GetIstioProxyLogsParams
    [] toolName = "exec_pod_command" -> ExecPodCommandParams
    [] toolName = "get_iptables_rules" -> GetIptablesRulesParams
    [] toolName = "get_network_policies" -> GetNetworkPoliciesParams
    [] toolName = "trace_network_path" -> TraceNetworkPathParams
    [] OTHER -> <<>>

\* what the schema advertises for toolName (nothing for an unregistered name)
Schema(toolName) ==
  IF toolName \in DOMAIN GetToolDefinitions THEN GetToolDefinitions[toolName]
  ELSE createObjectSchema(<<>>, {})

\* a string a caller may give for key
StringSample(key) ==
  CASE key \in {"since", "timeout"} -> "10m"
    [] OTHER -> "<" \o key \o ">"

ArraySample(key) ==
  CASE key = "tables" -> <<"raw">>
    [] key = "test_endpoints" -> <<"/ip">>
    [] OTHER -> <<"ls">>

\* values of the type the schema declares for key
SchemaValues(key, prop) ==
  CASE prop.Enum # {} -> {JStr(e) : e \in prop.Enum}
    [] prop.Type = "string" -> {JStr(StringSample(key))}
    [] prop.Type = "integer" -> {JNum(3)}
    [] prop.Type = "boolean" -> {JBool(TRUE)}
    [] prop.Type = "array" -> {JArr(ArraySample(key))}
    [] OTHER -> {JObj(key)}

\* values the handler's field for key can take, one the decoder refuses, and
\* strings the handler itself refuses
FieldValues(key, goType) ==
  (CASE goType = "string" -> {JStr(StringSample(key)), JNum(3)}
     [] goType = "int" -> {JNum(3), JStr("three")}
     [] goType = "bool" -> {JBool(TRUE), JStr("yes")}
     [] goType = "[]string" -> {JArr(ArraySample(key)), JStr("ls")}
     [] OTHER -> {JObj(key), JStr("a=b")})
  \cup (IF key = "since" THEN {JStr("soon")} ELSE {})
  \cup (IF key = "protocol" THEN {JStr("ftp")} ELSE {})

Keys(toolName) == DOMAIN Schema(toolName).Properties \cup DOMAIN HandlerParams(toolName)

Values(toolName, key) ==
  (IF key \in DOMAIN Schema(toolName).Properties
   THEN SchemaValues(key, Schema(toolName).Properties[key]) ELSE {})
  \cup (IF key \in DOMAIN HandlerParams(toolName)
        THEN FieldValues(key, HandlerParams(toolName)[key]) ELSE {})

\* the JSON objects over the keys in keys
ObjectsOver(toolName, keys) ==
  LET all == UNION {Values(toolName, k) : k \in keys}
  IN {o \in [keys -> all] : \A k \in keys : o[k] \in Values(toolName, k)}

\* objects for toolName: any of the required keys, at most MaxExtra others
Objects(toolName) ==
  LET required == Schema(toolName).Required
      others == Keys(toolName) \ required
      parts(from, most) ==
        UNION {ObjectsOver(toolName, ks) : ks \in {x \in SUBSET from : Cardinality(x) <= most}}
  IN {r @@ e : r \in parts(required, Cardinality(required)), e \in parts(others, MaxExtra)}

Payloads(toolName) ==
  {RawInvalid, RawEmpty, RawNull, RawArray, RawString}
  \cup {RawObject(o) : o \in Objects(toolName)}

\* what json.Marshal gives for the arguments map of a tools/call request
Arguments(toolName) ==
  {RawNull}
  \cup {RawObject(o) : o \in {x \in Objects(toolName) :
           Cardinality(DOMAIN x \ Schema(toolName).Required) <= MaxRequestExtra}}

\* the external operations a handler can reach
StatusOps == {"namespaces.get", "daemonsets.get", "deployments.list", "helm.list"}

SailStatusOps ==
  {"deployments.list:component", "deployments.list:name", "deployments.list:app",
   "helm.list"}

NamespaceOps == {"namespaces.create", "namespaces.get", "namespaces.update"}

HandlerOps(toolName) ==
  CASE toolName = "list_contexts" -> {"kubeconfig.load"}
    [] toolName = "switch_context" -> {"kubeconfig.load", "kubeconfig.write"}
    [] toolName = "get_cluster_info" ->
         {"discovery.version", "nodes.list", "namespaces.list", "kubeconfig.current"}
    [] toolName = "install_istio" ->
         {"helm.version", "helm.repo.add:istio", "helm.repo.update:istio",
          "helm.install:istio-cni", "helm.install:istio-base", "helm.install:istiod",
          "helm.install:istio-ingress"} \cup StatusOps
    [] toolName = "uninstall_istio" ->
         {"helm.version", "helm.uninstall:istio-ingress", "helm.uninstall:istiod",
          "helm.uninstall:istio-base", "helm.uninstall:istio-cni", "kubectl.get.crd",
          "kubectl.delete.crd"}
    [] toolName = "check_istio_status" -> StatusOps
    [] toolName = "install_sail_operator" ->
         {"helm.version", "helm.repo.add:sail-operator", "helm.repo.update:sail-operator",
          "helm.install:sail-operator"} \cup SailStatusOps
    [] toolName = "uninstall_sail_operator" -> {"helm.version", "helm.uninstall:sail-operator"}
    [] toolName = "check_sail_status" -> SailStatusOps
    [] toolName = "deploy_sleep_app" ->
         NamespaceOps \cup {"serviceaccounts.create", "deployments.create"}
    [] toolName = "deploy_httpbin_app" ->
         NamespaceOps \cup {"serviceaccounts.create", "deployments.create", "services.create"}
    [] toolName = "undeploy_sleep_app" -> {"deployments.delete", "serviceaccounts.delete"}
    [] toolName = "undeploy_httpbin_app" ->
         {"deployments.delete", "services.delete", "serviceaccounts.delete"}
    [] toolName = "test_connectivity" -> {"pods.get", "exec:connectivity"}
    [] toolName = "test_sleep_to_httpbin" ->
         {"pods.list", "services.get"}
         \cup {"exec:" \o DefaultTestEndpoints[i] : i \in 1..Len(DefaultTestEndpoints)}
         \cup {"exec:" \o ArraySample("test_endpoints")[1]}
    [] toolName \in {"get_pod_logs", "get_istio_proxy_logs"} ->
         {"pods.get", "pods.logs", "logs.read"}
    [] toolName = "exec_pod_command" -> {"pods.get", "exec:command"}
    [] toolName = "get_iptables_rules" ->
         {"pods.get", "time.now"}
         \cup {"kubectl.debug:" \o t : t \in {"filter", "nat", "mangle", "raw"}}
         \cup {"kubectl.logs:" \o t : t \in {"filter", "nat", "mangle", "raw"}}
    [] toolName = "get_network_policies" -> {"networkpolicies.list", "pods.get:labels"}
    [] toolName = "trace_network_path" ->
         {"pods.get", "pods.get:target", "exec:traceroute", "exec:tracepath",
          "exec:ip route", "exec:ip addr"}
    [] OTHER -> {}

\* the ways an external operation can end other than normally: with an error
\* ("error", and "notfound" / "exists" where the API has them), or without
\* one but with an unusual answer (an empty list or empty output "ok_empty",
\* an HTTP status "ok_http<code>", no status code in the output "ok_nocode", a
\* deployment not ready "ok_notready", output on the second poll "ok_late")
Outcomes(name) ==
  CASE name \in {"namespaces.create", "serviceaccounts.create", "deployments.create",
                 "services.create", "helm.repo.add:istio", "helm.repo.add:sail-operator"}
         -> {"exists", "error"}
    [] name \in {"namespaces.get", "daemonsets.get", "services.get", "pods.get:target",
                 "deployments.delete", "serviceaccounts.delete", "services.delete",
                 "helm.uninstall:istio-ingress", "helm.uninstall:istiod",
                 "helm.uninstall:istio-base", "helm.uninstall:istio-cni",
                 "helm.uninstall:sail-operator"}
         -> {"notfound", "error"}
    [] name = "pods.get" -> {"ok_empty", "notfound", "error"}
    [] name = "time.now" -> {"ok_same"}
    [] name = "pods.get:labels" -> {"ok_nolabels", "ok_httpbin", "notfound", "error"}
    [] name = "networkpolicies.list" -> {"ok_empty", "error"}
    [] name = "pods.logs"
         -> {"ok_lines" \o ToString(n) : n \in (0..MaxLogLines) \ {1}} \cup {"error"}
    [] name \in {"kubeconfig.load", "pods.list", "deployments.list", "helm.list",
                 "kubectl.get.crd"}
         -> {"ok_empty", "error"}
    [] name \in {"deployments.list:component", "deployments.list:name",
                 "deployments.list:app"}
         -> {"ok_empty", "ok_notready", "error"}
    [] name \in {"kubectl.logs:" \o t : t \in {"filter", "nat", "mangle", "raw"}}
         -> {"ok_late", "ok_empty", "error"}
    [] name = "exec:connectivity"
         -> {"ok_http399", "ok_http400", "ok_http500", "ok_nocode", "error"}
    [] name \in {"exec:" \o DefaultTestEndpoints[i] : i \in 1..Len(DefaultTestEndpoints)}
              \cup {"exec:" \o ArraySample("test_endpoints")[1]}
         -> {"ok_http500", "ok_nocode", "error"}
    [] OTHER -> {"error"}

\* how the operations of one invocation end: at most MaxFailures of them
\* other than normally
Envs(toolName) ==
  LET all == UNION {Outcomes(n) : n \in HandlerOps(toolName)}
      some == {x \in SUBSET HandlerOps(toolName) : Cardinality(x) <= MaxFailures}
  IN UNION {{env \in [ns -> all] : \A n \in ns : env[n] \in Outcomes(n)} : ns \in some}

\* how the operations of the invocation of one request end
RequestEnvs(toolName) ==
  {env \in Envs(toolName) : Cardinality(DOMAIN env) <= MaxRequestFailures}

(***************************************************************************)
(* State.                                                                  *)
(***************************************************************************)
VARIABLES
  k8sClient,  \* Manager.k8sClient: "nil", "client", or "unset" before NewManager
  call,       \* the last ExecuteTool invocation and how it ended
  pc,         \* where the process is: "library" when the Manager is used directly
  os,         \* what the process was started with: stdin, os.Args, the kubeconfig
  exitStatus, \* -1 while the process has not exited
  stdout,     \* what the process has printed for its user, in order
  reply,      \* what the server answered to the request it handled last
  channel,    \* the requests read from stdin and the responses written to stdout
  events,     \* what has happened to the process: end of input, signal, timer
  kubeContext, \* current-context of the kubeconfig file
  deployments \* the replicas of the sleep and httpbin deployments of the cluster
              \* by namespace (0: none), where a specification follows them;
              \* elsewhere the cluster is the environment, whose answers are
              \* chosen with each invocation

vars == <<k8sClient, call, pc, os, exitStatus, stdout, reply, channel, events,
          kubeContext, deployments>>

\* the namespaces and replica counts of the deployments followed
DeployNamespaces == {"default", "<namespace>"}

Apps == {"sleep", "httpbin"}

ReplicaCounts == {1, 3}

NoDeployments == [key \in DeployNamespaces \X Apps |-> 0]

NoCall ==
  [made |-> FALSE, toolName |-> "", args |-> RawNull, result |-> NilResult,
   err |-> NoErr, ops |-> <<>>, panic |-> FALSE, handler |-> "none"]

\* the invocation ExecuteTool(toolName, args) that ended as r
Invocation(toolName, args, r) ==
  [made |-> TRUE, toolName |-> toolName, args |-> args, result |-> r.result,
   err |-> r.err, ops |-> r.ops, panic |-> r.panic, handler |-> r.handler]

NoProcess == [stdinTerminal |-> TRUE, Args |-> <<>>, kubeconfig |-> "ok"]

NoReply == [method |-> "", IsError |-> FALSE, Content |-> <<>>]

\* a request read from the channel, and none
Request(id, method, name, arguments) ==
  [id |-> id, method |-> method, name |-> name, arguments |-> arguments]

NoRequest == Request(0, "", "", RawNull)

\* the channel of a server: how many requests have been read, the request
\* being handled, and the identifiers of the responses written, in order
NoChannel == [received |-> 0, inflight |-> NoRequest, written |-> <<>>]

(***************************************************************************)
(* The Manager used as a library: NewManager(k8sClient), then ExecuteTool  *)
(* with any name and payload.                                              *)
(***************************************************************************)
\* the orders in which a range over the two contexts of the file can go
RangeOrders(toolName) ==
  IF toolName = "list_contexts"
  THEN {<<StartupContext, OtherContext>>, <<OtherContext, StartupContext>>}
  ELSE {<<StartupContext, OtherContext>>}

\* the current-context of the kubeconfig file after an invocation that ended
\* as r: clientcmd.ModifyConfig, where it succeeded, has written the new one
ModifyConfig(context, r) ==
  LET written == {i \in 1..Len(r.ops) :
                    r.ops[i].op = "kubeconfig.write" /\ r.ops[i].out = "ok"}
  IN IF written = {} THEN context ELSE r.ops[CHOOSE i \in written : TRUE].args[1]

Init ==
  /\ k8sClient \in {"nil", "client"}
  /\ call = NoCall
  /\ pc = "library"
  /\ os = NoProcess
  /\ exitStatus = -1
  /\ stdout = <<>>
  /\ reply = NoReply
  /\ channel = NoChannel
  /\ events = {}
  /\ kubeContext = StartupContext
  /\ deployments = NoDeployments

\* one invocation of ExecuteTool, to its return
Execute ==
  /\ pc = "library"
  /\ ~call.made
  /\ \E toolName \in ToolNames :
       \E args \in Payloads(toolName), env \in Envs(toolName),
          order \in RangeOrders(toolName) :
         \E r \in {ExecuteTool(k8sClient, toolName, args, World(env, kubeContext, order))} :
           /\ call' = Invocation(toolName, args, r)
           /\ kubeContext' = ModifyConfig(kubeContext, r)
  /\ UNCHANGED <<k8sClient, pc, os, exitStatus, stdout, reply, channel, events, deployments>>

\* the caller is done with the result
Return ==
  /\ pc = "library"
  /\ call.made
  /\ call' = NoCall
  /\ UNCHANGED <<k8sClient, pc, os, exitStatus, stdout, reply, channel, events, kubeContext, deployments>>

Next == Execute \/ Return

Spec == Init /\ [][Next]_vars

(***************************************************************************)
(* The Manager used as a library by a caller that invokes a tool twice.    *)
(***************************************************************************)
\* one invocation of ExecuteTool, to its return; env (how the external
\* operations end) is kept with the invocation
ExecuteFirst ==
  /\ pc = "library"
  /\ ~call.made
  /\ \E toolName \in ToolNames :
       \E args \in Payloads(toolName), env \in Envs(toolName),
          order \in RangeOrders(toolName) :
         \E r \in {ExecuteTool(k8sClient, toolName, args, World(env, kubeContext, order))} :
           /\ call' = Invocation(toolName, args, r) @@ [env |-> env, again |-> NilResult]
           /\ kubeContext' = ModifyConfig(kubeContext, r)
  /\ UNCHANGED <<k8sClient, pc, os, exitStatus, stdout, reply, channel, events, deployments>>

\* the caller invokes the same tool again with the same payload, while the
\* external operations end as they did the first time
ExecuteAgain ==
  /\ pc = "library"
  /\ call.made /\ call.again.nil
  /\ \E order \in RangeOrders(call.toolName) :
       \E r \in {ExecuteTool(k8sClient, call.toolName, call.args,
                             World(call.env, kubeContext, order))} :
         /\ call' = [call EXCEPT !.again = r.result]
         /\ kubeContext' = ModifyConfig(kubeContext, r)
  /\ UNCHANGED <<k8sClient, pc, os, exitStatus, stdout, reply, channel, events, deployments>>

TwiceNext == ExecuteFirst \/ ExecuteAgain \/ Return

TwiceSpec == Init /\ [][TwiceNext]_vars

(***************************************************************************)
(* The Manager deploying the sample applications on a cluster that starts  *)
(* without them and that nobody else changes.                              *)
(***************************************************************************)
DeployTools == {"deploy_sleep_app", "deploy_httpbin_app"}

App(toolName) == IF toolName = "deploy_sleep_app" THEN "sleep" ELSE "httpbin"

\* the API server's Create in an invocation that ended as r: AlreadyExists
\* exactly for a deployment that exists
CreateAnswers(r) ==
  \A i \in 1..Len(r.ops) :
    r.ops[i].op = "deployments.create" =>
      r.ops[i].out \in (IF deployments[<<r.ops[i].args[1], r.ops[i].args[2]>>] # 0
                        THEN {"exists", "error"} ELSE {"ok", "error"})

\* the deployments after an invocation that ended as r: a Create that
\* succeeded has made the deployment with the replicas it was given
Created(r) ==
  LET done == {i \in 1..Len(r.ops) : r.ops[i].op = "deployments.create" /\ r.ops[i].out = "ok"}
      made == r.ops[CHOOSE i \in done : TRUE].args
  IN IF done = {} THEN deployments
     ELSE [deployments EXCEPT ![<<made[1], made[2]>>] =
             CHOOSE n \in ReplicaCounts : ToString(n) = made[3]]

DeployInit == Init /\ k8sClient = "client"

\* one invocation of a deploy tool, to its return; the caller goes on as long
\* as no invocation has returned an error result
Deploy ==
  /\ pc = "library"
  /\ ~call.result.IsError
  /\ \E toolName \in DeployTools :
       \E args \in Payloads(toolName), env \in Envs(toolName),
          order \in RangeOrders(toolName) :
         \E r \in {ExecuteTool(k8sClient, toolName, args, World(env, kubeContext, order))} :
           /\ CreateAnswers(r)
           /\ call' = Invocation(toolName, args, r)
           /\ deployments' = Created(r)
  /\ UNCHANGED <<k8sClient, pc, os, exitStatus, stdout, reply, channel, events, kubeContext>>

DeployNext == Deploy

DeploySpec == DeployInit /\ [][DeployNext]_vars

(***************************************************************************)
(* The process (main.go): start-up, the command-line forms, the servers.   *)
(***************************************************************************)
\* a command-line word: its text, whether it starts with "{" and ends with
\* "}", and what it is when read as JSON
W(text) == [text |-> text, braces |-> FALSE, raw |-> RawInvalid]

JsonWord(raw, braces) == [text |-> "<json>", braces |-> braces, raw |-> raw]

\* the words a caller may give as the arguments of toolName
JsonWords(toolName) ==
  {JsonWord(raw, raw.syntax = "object") : raw \in Payloads(toolName)}
  \cup {JsonWord(RawInvalid, TRUE)}

\* the command lines of the model
ArgsSet ==
  LET prog == W("meshpilot")
      short == {JsonWord(RawObject(<<>>), TRUE), JsonWord(RawInvalid, TRUE),
                JsonWord(RawNull, FALSE), W("--args")}
  IN {<<prog>>}
     \cup {<<prog, W(f)>> :
             f \in {"--help", "-h", "--list-tools", "--tool-help", "--tool", "--verbose"}}
     \cup {<<prog, W("--tool-help"), W(t)>> : t \in ToolNames}
     \cup {<<prog, W("--tool"), W(t)>> : t \in ToolNames}
     \cup UNION {{<<prog, W("--tool"), W(t), W("--args"), j>> : j \in JsonWords(t)} :
                   t \in ToolNames}
     \cup {<<prog, W("--tool"), W(t), j>> : t \in ToolNames, j \in short}
     \cup {<<prog, W("--tool"), W(t), W("--json"), JsonWord(RawObject(<<>>), TRUE)>> :
             t \in ToolNames}

\* something printed: what it is and the text that goes with it
Line(kind, text) == [kind |-> kind, text |-> text]

\* printFormattedResult: an error result is printed as an error and the
\* function returns; any other result is printed formatted
printFormattedResult(toolName, result) ==
  IF result.IsError THEN <<Line("error", result.Content[1].Text)>>
  ELSE <<Line("result", result.Content[1].Text)>>

\* the argument pattern of a --tool command line of three words or more:
\* --args <json>, nothing, a bare word in braces, a bare word, anything else
Pattern(Args) ==
  CASE Len(Args) >= 5 /\ Args[4].text = "--args" -> "flag"
    [] Len(Args) = 3 -> "default"
    [] Len(Args) = 4 /\ Args[4].braces -> "bare"
    [] Len(Args) = 4 -> "usage"
    [] OTHER -> "format"

\* the payload handleDirectExecution passes on
DirectArgs(Args) ==
  CASE Pattern(Args) = "flag" -> Args[5].raw
    [] Pattern(Args) = "bare" -> Args[4].raw
    [] OTHER -> RawObject(<<>>)

\* handleDirectExecution to the end of the process, where r is how the call
\* of ExecuteTool ends if it is made: what is printed, the exit status, and
\* the invocation
DirectExecution(Args, r) ==
  LET toolName == Args[3].text
      form == Pattern(Args)
      info == CASE form = "default" ->
                     <<Line("info", <<"Executing tool '", toolName,
                                      "' with default parameters">>),
                       Line("parameters", <<toolName>>)>>
                [] form = "bare" -> <<Line("info", <<"Detected JSON arguments">>)>>
                [] OTHER -> <<>>
      stop(lines) == [stdout |-> lines, exitStatus |-> 1, call |-> NoCall]
  IN IF Len(Args) < 3
     THEN stop(<<Line("usage", <<"meshpilot --tool <tool_name> [--args '<json_args>']">>)>>)
     ELSE IF ~isValidTool(toolName)
     THEN stop(<<Line("error", <<"Unknown tool: ", toolName>>), Line("suggestions", <<>>)>>)
     ELSE IF form = "usage"
     THEN stop(<<Line("error", <<"Invalid usage. Did you mean: --args '", Args[4].text, "'?">>),
                 Line("parameters", <<toolName>>)>>)
     ELSE IF form = "format"
     THEN stop(<<Line("error", <<"Invalid arguments format">>),
                 Line("parameters", <<toolName>>)>>)
     ELSE IF r.panic
     THEN [stdout |-> info \o <<Line("panic", <<>>)>>, exitStatus |-> 2,
           call |-> Invocation(toolName, DirectArgs(Args), r)]
     ELSE IF ~r.err.nil
     THEN [stdout |-> info \o <<Line("error", <<"Error executing tool ", toolName, ": ">>
                                              \o r.err.msg)>>,
           exitStatus |-> 1, call |-> Invocation(toolName, DirectArgs(Args), r)]
     ELSE [stdout |-> info \o printFormattedResult(toolName, r.result),
           exitStatus |-> 0, call |-> Invocation(toolName, DirectArgs(Args), r)]

handleDirectExecution(Args, client, env) ==
  DirectExecution(Args, ExecuteTool(client, Args[3].text, DirectArgs(Args), env))

\* showDetailedToolHelp
showDetailedToolHelp(toolName) ==
  IF ~isValidTool(toolName)
  THEN <<Line("error", <<"Unknown tool: ", toolName>>), Line("suggestions", <<>>)>>
  ELSE <<Line("tool-help", <<toolName>>)>>

\* a conversion that keeps the texts but not the error flag
ConvertedUnflagged(toolName, arguments, r) ==
  [call |-> Invocation(toolName, arguments, r),
   reply |-> [method |-> "tools/call", IsError |-> FALSE,
              Content |-> [i \in 1..Len(r.result.Content) |-> r.result.Content[i].Text]]]

\* the conversion of WrapTool: the reply of tools/call for an invocation
\* that ended as r
Converted(toolName, arguments, r) ==
  [call |-> Invocation(toolName, arguments, r),
   reply |-> IF ~r.err.nil
             THEN [method |-> "tools/call", IsError |-> TRUE,
                   Content |-> <<<<"Tool execution failed: ">> \o r.err.msg>>]
             ELSE [method |-> "tools/call", IsError |-> r.result.IsError,
                   Content |-> [i \in 1..Len(r.result.Content) |->
                                  r.result.Content[i].Text]]]

\* the handler WrapTool(toolName) makes: arguments is what json.Marshal gives
\* for the map of the request
WrapTool(toolName, arguments, client, env) ==
  Converted(toolName, arguments, ExecuteTool(client, toolName, arguments, env))

MainInit ==
  /\ k8sClient = "unset"
  /\ call = NoCall
  /\ pc = "main"
  /\ \E stdinTerminal \in BOOLEAN, Args \in ArgsSet, kubeconfig \in {"ok", "missing"} :
       os = [stdinTerminal |-> stdinTerminal, Args |-> Args, kubeconfig |-> kubeconfig]
  /\ exitStatus = -1
  /\ stdout = <<>>
  /\ reply = NoReply
  /\ channel = NoChannel
  /\ events = {}
  /\ kubeContext = StartupContext
  /\ deployments = NoDeployments

\* stdin is not a terminal and there are no arguments
isMCPMode == ~os.stdinTerminal /\ Len(os.Args) = 1

\* k8s.NewClient fails
NewClientFails == os.kubeconfig = "missing"

\* main up to NewManager, where it gets that far: the client the Manager holds
Started ==
  /\ pc = "main"
  /\ ~(NewClientFails /\ ~isMCPMode)
  /\ k8sClient' = IF NewClientFails THEN "nil" ELSE "client"

\* the process ends with this printed and this exit status
Exit(lines, status) ==
  /\ stdout' = stdout \o lines
  /\ exitStatus' = status
  /\ pc' = "exited"

\* NewClient fails outside MCP mode: log.Fatalf
MainFatal ==
  /\ pc = "main"
  /\ NewClientFails /\ ~isMCPMode
  /\ Exit(<<Line("fatal", <<"Failed to create Kubernetes client: ", "no kubeconfig">>)>>, 1)
  /\ UNCHANGED <<k8sClient, call, os, reply, channel, events, kubeContext, deployments>>

\* MCP mode: main calls server.Serve on stdio
MainServeStdio ==
  /\ Started
  /\ isMCPMode
  /\ pc' = "stdio"
  /\ UNCHANGED <<call, os, exitStatus, stdout, reply, channel, events, kubeContext, deployments>>

MainShowHelp ==
  /\ Started
  /\ Len(os.Args) > 1 /\ os.Args[2].text \in {"--help", "-h"}
  /\ Exit(<<Line("help", <<>>)>>, 0)
  /\ UNCHANGED <<call, os, reply, channel, events, kubeContext, deployments>>

MainListTools ==
  /\ Started
  /\ Len(os.Args) > 1 /\ os.Args[2].text = "--list-tools"
  /\ Exit(<<Line("tools", <<>>)>>, 0)
  /\ UNCHANGED <<call, os, reply, channel, events, kubeContext, deployments>>

MainToolHelp ==
  /\ Started
  /\ Len(os.Args) > 1 /\ os.Args[2].text = "--tool-help"
  /\ IF Len(os.Args) < 3
     THEN Exit(<<Line("usage", <<"meshpilot --tool-help <tool_name>">>)>>, 1)
     ELSE Exit(showDetailedToolHelp(os.Args[3].text), 0)
  /\ UNCHANGED <<call, os, reply, channel, events, kubeContext, deployments>>

\* --tool: handleDirectExecution, to the end of the process
MainDirectExecution ==
  /\ Started
  /\ Len(os.Args) > 1 /\ os.Args[2].text = "--tool"
  /\ \E env \in Envs(IF Len(os.Args) < 3 THEN "" ELSE os.Args[3].text),
        order \in RangeOrders(IF Len(os.Args) < 3 THEN "" ELSE os.Args[3].text) :
       \E run \in {handleDirectExecution(os.Args, k8sClient',
                                         World(env, kubeContext, order))} :
         /\ Exit(run.stdout, run.exitStatus)
         /\ call' = run.call
         /\ kubeContext' = ModifyConfig(kubeContext, run.call)
  /\ UNCHANGED <<os, reply, channel, events, deployments>>

MainUnknownArgument ==
  /\ Started
  /\ Len(os.Args) > 1
  /\ os.Args[2].text \notin {"--help", "-h", "--list-tools", "--tool-help", "--tool"}
  /\ Exit(<<Line("error", <<"Unknown argument: ", os.Args[2].text>>), Line("help", <<>>)>>, 0)
  /\ UNCHANGED <<call, os, reply, channel, events, kubeContext, deployments>>

\* the server context given the 30-second timeout whatever the mode
MainServeInteractiveTimed ==
  /\ Started
  /\ ~isMCPMode /\ Len(os.Args) = 1
  /\ \E demoMode \in BOOLEAN :
       /\ pc' = "demo"
       /\ stdout' = <<Line("banner", <<"MeshPilot MCP Server is running!">>),
                      Line("mode", <<IF demoMode THEN "demo" ELSE "production">>)>>
  /\ UNCHANGED <<call, os, exitStatus, reply, channel, events, kubeContext, deployments>>

\* a terminal and no arguments: the server is started with signal handling,
\* in demo mode or not as the environment says
MainServeInteractive ==
  /\ Started
  /\ ~isMCPMode /\ Len(os.Args) = 1
  /\ \E demoMode \in BOOLEAN :
       /\ pc' = IF demoMode THEN "demo" ELSE "interactive"
       /\ stdout' = <<Line("banner", <<"MeshPilot MCP Server is running!">>),
                      Line("mode", <<IF demoMode THEN "demo" ELSE "production">>)>>
  /\ UNCHANGED <<call, os, exitStatus, reply, channel, events, kubeContext, deployments>>

Serving == pc \in {"stdio", "interactive", "demo"}

\* the server is between two requests
Idle == Serving /\ channel.inflight = NoRequest /\ ~call.made /\ reply = NoReply

\* the server reads a request off the channel
Reads ==
  /\ Idle
  /\ "eof" \notin events
  /\ channel.received < MaxRequests

\* the request read now, with the next identifier of the client
Received(method, name, arguments) ==
  [channel EXCEPT !.received = @ + 1,
                  !.inflight = Request(channel.received + 1, method, name, arguments)]

\* tools/list: the SDK answers with the registered definitions
HandleToolsList ==
  /\ Reads
  /\ channel' = Received("tools/list", "", RawNull)
  /\ reply' = [method |-> "tools/list", IsError |-> FALSE,
               Content |-> <<{tool.Name : tool \in AddTool}>>]
  /\ UNCHANGED <<k8sClient, call, pc, os, exitStatus, stdout, events, kubeContext, deployments>>

\* tools/call naming an advertised tool: the request has been read and the
\* handler is about to run
ReceiveToolsCall ==
  /\ Reads
  /\ \E tool \in AddTool :
       \E arguments \in Arguments(tool.toolName) :
         channel' = Received("tools/call", tool.Name, arguments)
  /\ UNCHANGED <<k8sClient, call, pc, os, exitStatus, stdout, reply, events, kubeContext, deployments>>

\* tools/call of a registered tool: the SDK calls the handler registered
\* under the name, which runs to its return
HandleToolsCall ==
  /\ Serving
  /\ channel.inflight.method = "tools/call" /\ reply = NoReply
  /\ \E toolName \in {tool.toolName : tool \in {x \in AddTool : x.Name = channel.inflight.name}} :
       \E env \in RequestEnvs(toolName), order \in RangeOrders(toolName) :
         \E w \in {WrapTool(toolName, channel.inflight.arguments, k8sClient,
                            World(env, kubeContext, order))} :
           /\ call' = w.call
           /\ reply' = w.reply
           /\ kubeContext' = ModifyConfig(kubeContext, w.call)
  /\ UNCHANGED <<k8sClient, pc, os, exitStatus, stdout, channel, events, deployments>>

\* the response is written with the identifier of the request; the server
\* reads the next request
Replied ==
  /\ Serving
  /\ reply # NoReply
  /\ call' = NoCall
  /\ reply' = NoReply
  /\ channel' = [channel EXCEPT !.inflight = NoRequest,
                                !.written = Append(@, channel.inflight.id)]
  /\ UNCHANGED <<k8sClient, pc, os, exitStatus, stdout, events, kubeContext, deployments>>

\* the client closes the input stream of the server
StdinCloses ==
  /\ Serving
  /\ "eof" \notin events
  /\ events' = events \cup {"eof"}
  /\ UNCHANGED <<k8sClient, call, pc, os, exitStatus, stdout, reply, channel, kubeContext, deployments>>

\* SIGINT or SIGTERM is delivered to the process
SignalArrives ==
  /\ Serving
  /\ "signal" \notin events
  /\ events' = events \cup {"signal"}
  /\ UNCHANGED <<k8sClient, call, pc, os, exitStatus, stdout, reply, channel, kubeContext, deployments>>

\* demo mode: the 30 seconds of context.WithTimeout have passed
TimerFires ==
  /\ pc = "demo"
  /\ "timer" \notin events
  /\ events' = events \cup {"timer"}
  /\ UNCHANGED <<k8sClient, call, pc, os, exitStatus, stdout, reply, channel, kubeContext, deployments>>

\* mcpServer.Run has come to its end: the input stream is closed and the
\* request read last has been answered
RunEnded == Idle /\ "eof" \in events

\* Serve returns nil and main returns
ServeReturns ==
  /\ RunEnded
  /\ Exit(<<>>, 0)
  /\ call' = NoCall /\ reply' = NoReply
  /\ UNCHANGED <<k8sClient, os, channel, events, kubeContext, deployments>>

\* Serve returns an error: os.Exit(1) in MCP mode, log.Fatalf otherwise
ServeFails ==
  /\ RunEnded
  /\ Exit(IF pc = "stdio" THEN <<>> ELSE <<Line("fatal", <<"Server failed: ", "error">>)>>, 1)
  /\ call' = NoCall /\ reply' = NoReply
  /\ UNCHANGED <<k8sClient, os, channel, events, kubeContext, deployments>>

\* MCP mode installs no signal handler: the signal ends the process (a shell
\* sees 128 + the number of the signal)
Killed ==
  /\ pc = "stdio"
  /\ "signal" \in events
  /\ Exit(<<>>, 130)
  /\ call' = NoCall /\ reply' = NoReply
  /\ UNCHANGED <<k8sClient, os, channel, events, kubeContext, deployments>>

\* SIGINT or SIGTERM with the handler of main installed: cancel() ends ctx and
\* serverCtx, and the select of main takes any case that is ready
Signal ==
  /\ pc \in {"interactive", "demo"}
  /\ "signal" \in events
  /\ \/ Exit(<<Line("stopped", <<"MeshPilot server stopped gracefully">>)>>, 0)
     \/ Exit(IF pc = "demo" THEN <<Line("timeout", <<"Demo timeout reached">>)>> ELSE <<>>, 0)
     \/ Exit(<<Line("fatal", <<"Server failed: ", "context canceled">>)>>, 1)
  /\ call' = NoCall /\ reply' = NoReply
  /\ UNCHANGED <<k8sClient, os, channel, events, kubeContext, deployments>>

\* demo mode: serverCtx has timed out
DemoTimeout ==
  /\ pc = "demo"
  /\ "timer" \in events
  /\ \/ Exit(<<Line("timeout", <<"Demo timeout reached">>)>>, 0)
     \/ Exit(<<Line("fatal", <<"Server failed: ", "context deadline exceeded">>)>>, 1)
  /\ call' = NoCall /\ reply' = NoReply
  /\ UNCHANGED <<k8sClient, os, channel, events, kubeContext, deployments>>

MainNext ==
  \/ MainFatal
  \/ MainServeStdio
  \/ MainShowHelp
  \/ MainListTools
  \/ MainToolHelp
  \/ MainDirectExecution
  \/ MainUnknownArgument
  \/ MainServeInteractive
  \/ HandleToolsList
  \/ ReceiveToolsCall
  \/ HandleToolsCall
  \/ Replied
  \/ StdinCloses
  \/ SignalArrives
  \/ TimerFires
  \/ ServeReturns
  \/ ServeFails
  \/ Killed
  \/ Signal
  \/ DemoTimeout

MainSpec == MainInit /\ [][MainNext]_vars

(***************************************************************************)
(* The process started as a persistent server (no arguments), with its     *)
(* goroutines scheduled: a handler that has started returns, a reply is    *)
(* written, and main gets to run when Serve has returned, when a signal    *)
(* has arrived and when the timer has fired.                               *)
(***************************************************************************)
\* a handler has been started for the request in hand and has not returned;
\* this is the enabling condition of HandleToolsCall
Dispatching == Serving /\ channel.inflight.method = "tools/call" /\ reply = NoReply

ServeInit == MainInit /\ Len(os.Args) = 1

ServeNext ==
  \/ MainFatal
  \/ MainServeStdio
  \/ MainServeInteractive
  \/ HandleToolsList
  \/ ReceiveToolsCall
  \/ HandleToolsCall
  \/ Replied
  \/ StdinCloses
  \/ SignalArrives
  \/ TimerFires
  \/ ServeReturns
  \/ ServeFails
  \/ Killed
  \/ Signal
  \/ DemoTimeout

ServeSpec ==
  /\ ServeInit /\ [][ServeNext]_vars
  \* weak fairness of HandleToolsCall, stated through its enabling condition,
  \* which only a HandleToolsCall step or the end of the process makes false
  /\ []<>(~Dispatching)
  /\ WF_vars(Replied)
  /\ WF_vars(ServeReturns \/ ServeFails)
  /\ WF_vars(Killed)
  /\ WF_vars(Signal)
  /\ WF_vars(DemoTimeout)

(***************************************************************************)
(* Properties of the dispatcher and the handlers.                          *)
(***************************************************************************)
\* the text of the only content block of the last result
Text == IF call.result.Content = <<>> THEN <<>> ELSE call.result.Content[1].Text

Contains(text, part) == \E i \in 1..Len(text) : text[i] = part

\* a handler ran for the last invocation
Handled == call.made /\ call.handler # "none"

\* C1: when the Manager holds no cluster client, every ExecuteTool call, for
\* any tool name and any payload, returns the same fixed "Kubernetes client
\* not available" result with IsError true, and neither a handler nor an
\* external operation is invoked.
C1_NilClientShortCircuit ==
  (call.made /\ k8sClient = "nil") =>
    /\ call.result = ErrorResult(<<ClientNotAvailable>>)
    /\ call.handler = "none"
    /\ call.ops = <<>>
    /\ ~call.panic

C1_Witness ==
  /\ call.made /\ k8sClient = "nil"
  /\ call.toolName = "get_pod_logs"
  /\ call.args = RawObject([pod_name |-> JStr(StringSample("pod_name"))])

\* C2 as stated: a name that is not in the registry always gets a result with
\* IsError true whose diagnostic contains the requested name, without any
\* handler or external operation.
C2_UnknownNameAlwaysNamed ==
  (call.made /\ call.toolName \notin RegisterAllTools) =>
    /\ call.result.IsError
    /\ Contains(Text, call.toolName)
    /\ call.handler = "none"
    /\ call.ops = <<>>

\* C2: when the Manager holds a cluster client, a name that is not in the
\* registry gets a result with IsError true whose diagnostic contains the
\* requested name, and no handler and no external operation is invoked.
C2_UnknownNameWithClient ==
  (call.made /\ k8sClient = "client" /\ call.toolName \notin RegisterAllTools) =>
    /\ call.result.IsError
    /\ Contains(Text, call.toolName)
    /\ call.handler = "none"
    /\ call.ops = <<>>

C2_Witness ==
  /\ call.made /\ k8sClient = "client"
  /\ call.toolName = "bogus_tool"
  /\ Text = <<"Unknown tool: ", "bogus_tool">>

\* C3: for every tool name, every raw payload and every outcome of the
\* external operations, ExecuteTool returns a non-nil result and a nil Go
\* error, and does not end in a fault.
C3_ResultAndNilError ==
  call.made => (~call.result.nil /\ call.err.nil /\ ~call.panic)

C3_Witness ==
  /\ Handled
  /\ call.args = RawInvalid
  /\ call.result.IsError
  /\ call.ops = <<>>

\* C4: every result ExecuteTool returns holds exactly one content block, of
\* type text, and when IsError is true its text is a non-empty diagnostic.
C4_OneTextBlock ==
  call.made =>
    /\ Len(call.result.Content) = 1
    /\ call.result.Content[1].Type = "text"
    /\ call.result.IsError => \E i \in 1..Len(Text) : Text[i] # ""

C4_Witness ==
  /\ Handled
  /\ call.result.IsError
  /\ \E i \in 1..Len(call.ops) : IsFail(call.ops[i].out)

\* the payload of the last invocation decodes into the handler's struct
Decodes ==
  /\ call.args.syntax \in {"object", "null"}
  /\ Unmarshal(call.args, HandlerParams(call.toolName)).err.nil

\* the required parameters the payload of the last invocation leaves out
Missing == Schema(call.toolName).Required \ DOMAIN call.args.obj

\* the diagnostic names parameter key (as written, or capitalised as the
\* handlers of switch_context and exec_pod_command write it)
Names(text, key) ==
  \/ Contains(text, key)
  \/ key = "context" /\ Contains(text, "Context")
  \/ key = "command" /\ Contains(text, "Command")

\* C5 as stated: an invocation of a handler whose payload decodes but omits a
\* required parameter returns IsError true with a diagnostic naming a
\* missing parameter, before any external operation is attempted.
C5_MissingRequiredRejectedFirst ==
  (Handled /\ Decodes /\ Missing # {}) =>
    /\ call.result.IsError
    /\ \E key \in Missing : Names(Text, key)
    /\ call.ops = <<>>

\* C6 as stated: for every registered tool, a payload that does not decode
\* (invalid JSON, or JSON that is not an object) gives IsError true, and no
\* external operation has been attempted.
C6_UndecodableRejectedFirst ==
  (Handled /\ call.toolName \in RegisterAllTools
     /\ call.args.syntax \in {"invalid", "empty", "array", "string"}) =>
    /\ call.result.IsError
    /\ call.ops = <<>>

\* the payload of the last invocation is an object with every required
\* parameter of the schema, made of advertised parameters only, each with a
\* value of its declared type (and enumeration)
SchemaValid ==
  LET schema == Schema(call.toolName)
  IN /\ call.args.syntax = "object"
     /\ schema.Required \subseteq DOMAIN call.args.obj
     /\ \A key \in DOMAIN call.args.obj :
          /\ key \in DOMAIN schema.Properties
          /\ call.args.obj[key] \in SchemaValues(key, schema.Properties[key])

\* C7 as stated: for every registered tool, a payload with all the
\* parameters the schema requires, of the declared types, gives IsError
\* false whenever every external operation the handler performs succeeds.
C7_ValidInputSucceeds ==
  (Handled /\ call.toolName \in RegisterAllTools /\ SchemaValid
     /\ \A i \in 1..Len(call.ops) : call.ops[i].out = "ok") =>
    ~call.result.IsError

\* a cluster API call, an in-pod exec, or a helm or kubectl subprocess that is
\* not polled again
ViaClientOrSubprocess(name) ==
  /\ name \notin {"kubeconfig.load", "kubeconfig.write", "kubeconfig.current", "logs.read"}
  /\ name \notin {"kubectl.logs:" \o t : t \in {"filter", "nat", "mangle", "raw"}}

\* C8 as stated: if an external operation of the invocation failed, the
\* result has IsError true and carries the message of that failure.
C8_FailureSurfaces ==
  Handled =>
    \A i \in 1..Len(call.ops) :
      (call.ops[i].out = "error" /\ ViaClientOrSubprocess(call.ops[i].op)) =>
        /\ call.result.IsError
        /\ Contains(Text, ErrMsg(call.ops[i].op, "error"))

(***************************************************************************)
(* Properties of the process.                                              *)
(***************************************************************************)
\* the process was started in single-shot mode
SingleShot == Len(os.Args) >= 2 /\ os.Args[2].text = "--tool"

Printed(kinds) == \E i \in 1..Len(stdout) : stdout[i].kind \in kinds

\* C9 as stated: in single-shot mode the process exits with status 0 only
\* when the tool invocation succeeded; an unknown tool name, an invalid
\* command-line form and a result with IsError true all end with the
\* diagnostic printed and a non-zero exit status.
C9_ExitZeroOnlyOnSuccess ==
  (pc = "exited" /\ SingleShot) =>
    /\ exitStatus = 0 => (call.made /\ ~call.result.IsError)
    /\ (~call.made \/ call.result.IsError) => Printed({"error", "usage", "fatal"})

\* C10 as stated: when the cluster client cannot be established, the process
\* still gets to serve listing and help in the front-end that was selected:
\* the stdio server is started, and --help, --list-tools and --tool-help
\* <name> print what they are asked for before the process ends.
C10_HelpWithoutClient ==
  NewClientFails =>
    /\ (isMCPMode /\ pc = "exited") => k8sClient = "nil"
    /\ (pc = "exited" /\ Len(os.Args) >= 2 /\ os.Args[2].text \in {"--help", "-h"}) =>
         Printed({"help"})
    /\ (pc = "exited" /\ Len(os.Args) >= 2 /\ os.Args[2].text = "--list-tools") =>
         Printed({"tools"})
    /\ (pc = "exited" /\ Len(os.Args) >= 3 /\ os.Args[2].text = "--tool-help") =>
         Printed({"tool-help", "suggestions"})

(***************************************************************************)
(* Properties of the persistent server.                                    *)
(***************************************************************************)
\* C11 as stated: when the server has ended (other than by the lifetime
\* timer of demo mode, and not in the middle of a tools/list request), a
\* response has been written for every request read, in the order of the
\* requests and with their identifiers.
C11_OneResponsePerRequest ==
  (pc = "exited" /\ "timer" \notin events /\ channel.inflight.method # "tools/list") =>
    channel.written = [i \in 1..channel.received |-> i]

\* C13 as stated: when the process has ended after a signal (and without the
\* lifetime timer), no tool call is left in flight: the invocation being
\* dispatched when the signal arrived was completed and answered.
C13_InFlightFinishesBeforeExit ==
  (pc = "exited" /\ "signal" \in events /\ "timer" \notin events) =>
    channel.inflight.method # "tools/call"

\* the server was started in demo mode
DemoMode == \E i \in 1..Len(stdout) : stdout[i] = Line("mode", <<"demo">>)

C15_SameOutputTwice ==
  (/\ call.made
   /\ call.toolName \in {"check_istio_status", "list_contexts"}
   /\ ~call.again.nil) =>
    /\ call.again.IsError = call.result.IsError
    /\ call.again.Content = call.result.Content

(***************************************************************************)
(* Defaults.                                                               *)
(***************************************************************************)
\* the minutes of a duration given to helm's --timeout; 0 when no flag is given
Minutes(duration) ==
  CASE duration = "5m" -> 5
    [] duration = "10m" -> 10
    [] duration = "30m" -> 30
    [] duration = "1h" -> 60
    [] OTHER -> 0

\* the helm install runs of the control plane charts among the operations
ControlPlaneInstalls ==
  {i \in DOMAIN call.ops : call.ops[i].op \in {"helm.install:istio-base", "helm.install:istiod"}}

\* C16: install_istio invoked with the empty object `{}` runs every helm
\* install of the control plane (istio-base, istiod) in namespace
\* 'istio-system', waiting, with a timeout between 5 and 10 minutes; and when
\* it succeeds its message names that namespace.
C16_InstallDefaults ==
  (call.made /\ call.toolName = "install_istio" /\ call.args = RawObject(<<>>)) =>
    /\ \A i \in ControlPlaneInstalls :
         /\ call.ops[i].args[1] = "istio-system"
         /\ call.ops[i].args[3] = "true"
         /\ Minutes(call.ops[i].args[4]) \in 5..10
    /\ (~call.result.nil /\ ~call.result.IsError) =>
         /\ Text[1] = "Istio successfully installed using Helm in namespace '"
         /\ Text[2] = "istio-system"

C16_Witness ==
  /\ call.made /\ call.toolName = "install_istio" /\ call.args = RawObject(<<>>)
  /\ Cardinality(ControlPlaneInstalls) = 2
  /\ ~call.result.IsError

\* the default the schema of toolName declares for key, as helm is given it
DeclaredDefault(toolName, key) ==
  LET p == Schema(toolName).Properties[key]
  IN IF p.Type = "boolean" THEN BoolStr(p.Default.b) ELSE p.Default.s

\* what helm install run i was given for the parameters that reach it
Given(i) ==
  [version |-> call.ops[i].args[2], wait |-> call.ops[i].args[3],
   timeout |-> call.ops[i].args[4]]

\* C17 as stated, on the parameters of install_istio that reach helm: for
\* each of version, wait and timeout that the payload omits, every helm
\* install of the control plane is given the default the schema declares.
C17_OmittedTakesDeclaredDefault ==
  (call.made /\ call.toolName = "install_istio" /\ call.args.syntax = "object") =>
    \A i \in ControlPlaneInstalls :
      \A key \in {"version", "wait", "timeout"} \ DOMAIN call.args.obj :
        Given(i)[key] = DeclaredDefault("install_istio", key)

(***************************************************************************)
(* The tool registry.                                                      *)
(***************************************************************************)
\* the names the switch of ExecuteTool has a case for
Switched ==
  {toolName \in ToolNames : Route("client", toolName, RawNull, <<>>).handler # "none"}

\* C18: the names isValidTool accepts, the names ExecuteTool's switch routes
\* and the keys of the registry are one set; tools/list advertises exactly
\* that set; and a tools/call naming an advertised tool runs the handler
\* bound to that very name, which the switch routes to a handler.  (The
\* three sets do not change: they are compared where --list-tools has
\* printed the registry.)
C18_NameSetsAgree ==
  /\ Printed({"tools"}) => (validTools = RegisterAllTools /\ Switched = RegisterAllTools)
  /\ reply.method = "tools/list" => reply.Content[1] = validTools
  /\ (Serving /\ call.made) =>
       /\ call.toolName = channel.inflight.name
       /\ k8sClient = "client" => call.handler # "none"
  /\ (SingleShot /\ call.made /\ k8sClient = "client") => call.handler # "none"

C18_Witness ==
  /\ Serving /\ call.made /\ k8sClient = "client"
  /\ channel.inflight.name = "uninstall_istio"
  /\ call.handler = "UninstallIstio"

(***************************************************************************)
(* The cluster invocations act on.                                         *)
(***************************************************************************)
\* the operations of an invocation that act on a cluster
OnCluster(ops) ==
  {i \in 1..Len(ops) : ops[i].op \in FollowsKubeconfig \/ ops[i].op \notin LocalOps}

\* C19 as stated: no invocation replaces the Manager's client, and every
\* operation of every invocation, whatever invocations came before it
\* (a successful switch_context included), acts on the cluster the client
\* was established for at startup.
C19_SameClusterThroughout ==
  [][/\ k8sClient' = k8sClient
     /\ (~call.made /\ call'.made) =>
          \A i \in OnCluster(call'.ops) :
            Cluster(call'.ops[i].op, kubeContext) = StartupContext]_vars

(***************************************************************************)
(* test_connectivity.                                                      *)
(***************************************************************************)
\* the in-pod curl runs of the last invocation
Curls ==
  {i \in 1..Len(call.ops) :
     call.ops[i].op = "exec:connectivity" /\ call.ops[i].args[4] = "curl"}

\* C20: when test_connectivity has run its in-pod command for http or https,
\* a command that succeeded and printed HTTP code c gives status_code = c and
\* success = (200 <= c < 400), a command that failed gives success = false,
\* and the summary ends in SUCCESS exactly when success is true.
C20_HttpVerdict ==
  (call.made /\ call.toolName = "test_connectivity" /\ Curls # {}) =>
    /\ ~call.result.IsError
    /\ Text[8] = "SUCCESS" <=> Text[10] = "true"
    /\ Text[8] \in {"SUCCESS", "FAILED"}
    /\ \A i \in Curls :
         LET out == call.ops[i].out
             c == HttpCode(out)
         IN /\ IsFail(out) => Text[10] = "false"
            /\ (~IsFail(out) /\ c # 0) =>
                 /\ Text[12] = ToString(c)
                 /\ Text[10] = BoolStr(200 <= c /\ c < 400)

C20_Witness ==
  /\ call.made /\ call.toolName = "test_connectivity"
  /\ \E i \in Curls : call.ops[i].out = "ok_http400"
  /\ Text[8] = "FAILED"

(***************************************************************************)
(* Retries.                                                                *)
(***************************************************************************)
\* what an external operation is for: the two in-pod commands that trace the
\* route (traceroute, tracepath) are attempts at the same thing
Operation(op) == IF op \in {"exec:traceroute", "exec:tracepath"} THEN "exec:trace" ELSE op

Polls == {"kubectl.logs:" \o t : t \in {"filter", "nat", "mangle", "raw"}}

\* the attempts at the operation of attempt i that follow it
Later(i) ==
  {j \in 1..Len(call.ops) : i < j /\ Operation(call.ops[j].op) = Operation(call.ops[i].op)}

\* C21 as stated: within one invocation nothing is attempted again after it
\* has failed, except the polling of the debug container's logs by
\* get_iptables_rules, which makes at most maxWaitTime / waitInterval attempts
\* for a table and none after an attempt that gave output without error.
C21_NoRetry ==
  call.made =>
    \A i \in 1..Len(call.ops) :
      IF call.ops[i].op \in Polls
      THEN /\ call.toolName = "get_iptables_rules"
           /\ call.ops[i].out = "ok" => Later(i) = {}
           /\ Cardinality(Later(i)) < maxWaitTime \div waitInterval
      ELSE IsFail(call.ops[i].out) => Later(i) = {}

(***************************************************************************)
(* The order of the helm runs.                                             *)
(***************************************************************************)
\* the runs of operation op in the last invocation, and whether they all ended well
Runs(op) == {i \in 1..Len(call.ops) : call.ops[i].op = op}

Ran(op) == Runs(op) # {}

Succeeded(op) == Ran(op) /\ \A i \in Runs(op) : ~IsFail(call.ops[i].out)

\* every run of op comes before every run of next
Before(op, next) == \A i \in Runs(op), j \in Runs(next) : i < j

\* the boolean the payload of the last invocation gives key (false if absent)
Flag(key) ==
  /\ call.args.syntax = "object"
  /\ key \in DOMAIN call.args.obj
  /\ call.args.obj[key].ty = "boolean" /\ call.args.obj[key].b

InstallOrder == <<"helm.install:istio-cni", "helm.install:istio-base",
                  "helm.install:istiod", "helm.install:istio-ingress">>

\* C22: install_istio runs its helm installs once each in the order istio-cni
\* (only with install_cni), istio-base, istiod, istio-ingress (only with
\* install_gateway); a release is installed only if each earlier release that
\* was attempted succeeded; when cni, base or istiod fails the result is an
\* error and nothing is installed after it; a failure of the gateway alone
\* leaves the result a non-error.
C22_InstallOrder ==
  (call.made /\ call.toolName = "install_istio" /\ ~call.result.nil) =>
    /\ \A k \in 1..4 : Cardinality(Runs(InstallOrder[k])) <= 1
    /\ \A k, l \in 1..4 : k < l => Before(InstallOrder[k], InstallOrder[l])
    /\ Ran(InstallOrder[1]) => Flag("install_cni")
    /\ Ran(InstallOrder[4]) => Flag("install_gateway")
    /\ Ran(InstallOrder[2]) => (Flag("install_cni") => Succeeded(InstallOrder[1]))
    /\ Ran(InstallOrder[3]) => Succeeded(InstallOrder[2])
    /\ Ran(InstallOrder[4]) => Succeeded(InstallOrder[3])
    /\ \A k \in 1..3 :
         (Ran(InstallOrder[k]) /\ ~Succeeded(InstallOrder[k])) =>
           /\ call.result.IsError
           /\ \A l \in (k + 1)..4 : ~Ran(InstallOrder[l])
    /\ (Ran(InstallOrder[4]) /\ ~Succeeded(InstallOrder[4])) => ~call.result.IsError

C22_Witness ==
  /\ call.made /\ call.toolName = "install_istio"
  /\ Succeeded(InstallOrder[1]) /\ Succeeded(InstallOrder[2])
  /\ Ran(InstallOrder[3]) /\ ~Succeeded(InstallOrder[3])
  /\ call.result.IsError

UninstallOrder == <<"helm.uninstall:istio-ingress", "helm.uninstall:istiod",
                    "helm.uninstall:istio-base", "helm.uninstall:istio-cni",
                    "kubectl.get.crd", "kubectl.delete.crd">>

\* C23: uninstall_istio removes, once each and in this order, the gateway,
\* istiod, istio-base, istio-cni (only with uninstall_cni) and the CRDs (only
\* with delete_crds); istio-base is uninstalled only after istiod was
\* uninstalled successfully, the CNI removal and the CRD deletion are attempted
\* only after istio-base was uninstalled successfully, and the result is an
\* error exactly when istiod or istio-base failed: a failure of the gateway,
\* CNI or CRD step does not make it one.
C23_UninstallOrder ==
  (call.made /\ call.toolName = "uninstall_istio" /\ ~call.result.nil) =>
    /\ \A k \in 1..6 : Cardinality(Runs(UninstallOrder[k])) <= 1
    /\ \A k, l \in 1..6 : k < l => Before(UninstallOrder[k], UninstallOrder[l])
    /\ Ran(UninstallOrder[2]) => Ran(UninstallOrder[1])
    /\ Ran(UninstallOrder[4]) => Flag("uninstall_cni")
    /\ Ran(UninstallOrder[5]) => Flag("delete_crds")
    /\ Ran(UninstallOrder[6]) => Succeeded(UninstallOrder[5])
    /\ Ran(UninstallOrder[3]) => Succeeded(UninstallOrder[2])
    /\ (Ran(UninstallOrder[4]) \/ Ran(UninstallOrder[5])) => Succeeded(UninstallOrder[3])
    /\ Ran(UninstallOrder[1]) =>
         (call.result.IsError <=>
            ~(Succeeded(UninstallOrder[2]) /\ Succeeded(UninstallOrder[3])))

C23_Witness ==
  /\ call.made /\ call.toolName = "uninstall_istio"
  /\ Ran(UninstallOrder[1]) /\ ~Succeeded(UninstallOrder[1])
  /\ Succeeded(UninstallOrder[2]) /\ Succeeded(UninstallOrder[3])
  /\ Ran(UninstallOrder[4]) /\ ~Succeeded(UninstallOrder[4])
  /\ ~call.result.IsError

(***************************************************************************)
(* The two front-ends.                                                     *)
(***************************************************************************)
\* C24: the reply the stdio server's wrapper gives a tools/call request is
\* the outcome of ExecuteTool for the tool named and the JSON encoding of the
\* arguments sent: ExecuteTool returned a result and no Go error, the reply
\* has the error flag of that result and its texts in the same order, and the
\* wrapper itself hands back no Go error (the reply is a tool result).
C24_FrontEndsAgree ==
  (reply # NoReply /\ reply.method = "tools/call" /\ ~call.panic) =>
    /\ call.made
    /\ \E tool \in AddTool :
         tool.Name = channel.inflight.name /\ tool.toolName = call.toolName
    /\ call.args = channel.inflight.arguments
    /\ call.err.nil /\ ~call.result.nil
    /\ reply.IsError = call.result.IsError
    /\ Len(reply.Content) = Len(call.result.Content)
    /\ \A i \in 1..Len(reply.Content) : reply.Content[i] = call.result.Content[i].Text

C24_Witness ==
  /\ reply # NoReply /\ reply.method = "tools/call"
  /\ call.made /\ call.handler # "none" /\ call.ops # <<>>
  /\ call.result.IsError /\ reply.IsError
  /\ Len(reply.Content) = 1 /\ reply.Content[1] = call.result.Content[1].Text

(***************************************************************************)
(* The lines of a log.                                                     *)
(***************************************************************************)
\* the text that follows key in the JSON document of the last result
Field(key) ==
  LET at == {i \in 1..(Len(Text) - 1) : Text[i] = key /\ i % 2 = 0}
  IN Text[(CHOOSE i \in at : TRUE) + 1]

HasField(key) == \E i \in 1..(Len(Text) - 1) : Text[i] = key /\ i % 2 = 0

\* the stream the cluster answered pods.logs with, in lines
Streamed ==
  StreamLines(call.ops[CHOOSE i \in 1..Len(call.ops) : call.ops[i].op = "pods.logs"].out)

Returned == CHOOSE n \in 0..MaxLogLines : ToString(n) = Field("lines")

\* max_lines as the payload gives it, 1000 when it gives none
MaxLinesGiven ==
  IF call.args.syntax = "object" /\ "max_lines" \in DOMAIN call.args.obj
     /\ call.args.obj["max_lines"].n # 0
  THEN call.args.obj["max_lines"].n ELSE 1000

\* C25: in a successful get_pod_logs result the number of lines returned is
\* at most max_lines (1000 by default), and truncated is true exactly when
\* the log stream had lines that were not returned.
C25_Truncation ==
  (call.made /\ call.toolName = "get_pod_logs" /\ ~call.result.nil
     /\ ~call.result.IsError) =>
    /\ Returned <= MaxLinesGiven
    /\ HasField("truncated") <=> Returned < Streamed

(***************************************************************************)
(* The replicas of the sample applications.                                *)
(***************************************************************************)
\* the namespace and the replicas the last deploy result reports
ReportedNamespace == Text[2]

ReportedReplicas == CHOOSE n \in ReplicaCounts : ToString(n) = Text[4]

\* C26: after a sequence of deploy_sleep_app / deploy_httpbin_app invocations
\* that all returned a non-error result, the deployment of the application in
\* the namespace has the replicas the most recent invocation reports.
C26_ReplicasAsReported ==
  (call.made /\ call.toolName \in DeployTools /\ ~call.result.IsError) =>
    deployments[<<ReportedNamespace, App(call.toolName)>>] = ReportedReplicas

(***************************************************************************)
(* The policies of a pod.                                                  *)
(***************************************************************************)
\* a label selector matches a set of labels (k8s.io/apimachinery, labels):
\* every matchLabels pair is a label of the set, every expression holds
Matches(selector, labels) ==
  /\ \A key \in DOMAIN selector.MatchLabels :
       key \in DOMAIN labels /\ labels[key] = selector.MatchLabels[key]
  /\ \A i \in 1..Len(selector.MatchExpressions) :
       LET expr == selector.MatchExpressions[i]
       IN CASE expr.Operator = "In" -> expr.Key \in DOMAIN labels /\ labels[expr.Key] \in expr.Values
            [] expr.Operator = "NotIn" -> ~(expr.Key \in DOMAIN labels /\ labels[expr.Key] \in expr.Values)
            [] expr.Operator = "Exists" -> expr.Key \in DOMAIN labels
            [] OTHER -> expr.Key \notin DOMAIN labels

\* the names of the policies the last result lists
Listed ==
  LET at == CHOOSE i \in 1..Len(Text) : Text[i] = "policies"
  IN {Text[j] : j \in (at + 1)..(Len(Text) - 1)}

\* the labels of the pod the last invocation read
LabelsRead ==
  Labels(call.ops[CHOOSE i \in 1..Len(call.ops) : call.ops[i].op = "pods.get:labels"].out).map

\* C27: when a get_network_policies result carries filtered_for_pod = P,
\* every policy it lists has a pod selector that matches the labels of P
\* (stated here for a pod P whose labels the handler could read).
C27_ListedPoliciesMatch ==
  (call.made /\ call.toolName = "get_network_policies" /\ ~call.result.nil
     /\ ~call.result.IsError /\ HasField("filtered_for_pod")
     /\ \E i \in 1..Len(call.ops) :
          call.ops[i].op = "pods.get:labels" /\ ~IsFail(call.ops[i].out)) =>
    \A i \in 1..Len(Items) :
      Items[i].Name \in Listed => Matches(Items[i].PodSelector, LabelsRead)

(***************************************************************************)
(* The names of the debug containers.                                      *)
(***************************************************************************)
\* the ephemeral containers the last invocation created, as positions in ops
Debugs ==
  {i \in 1..Len(call.ops) :
     /\ \E t \in {"filter", "nat", "mangle", "raw"} : call.ops[i].op = "kubectl.debug:" \o t
     /\ ~IsFail(call.ops[i].out)}

\* C28: every ephemeral debug container get_iptables_rules creates on a pod
\* gets a name no earlier debug container on that pod had (stated here for
\* the containers of one invocation, one per table).
C28_FreshDebugNames ==
  (call.made /\ call.toolName = "get_iptables_rules") =>
    \A i, j \in Debugs : i < j => call.ops[i].args[4] # call.ops[j].args[4]

(***************************************************************************)
(* The cluster a report is about.                                          *)
(***************************************************************************)
\* C29: after any sequence of invocations, switch_context among them, the
\* context name and the server address of a get_cluster_info result belong
\* to the same context of the kubeconfig (stated here for the results that
\* name a context).
C29_NameAndServerAgree ==
  (call.made /\ call.toolName = "get_cluster_info" /\ ~call.result.nil
     /\ ~call.result.IsError /\ Field("context") # "unknown") =>
    Field("server") = Server(Field("context"))

(***************************************************************************)
(* Advertised and decoded parameter names.                                 *)
(***************************************************************************)
\* C30: every parameter name the schema registry advertises for a tool is a
\* name the tool's handler decodes: a value the caller of an invocation gave
\* under an advertised name is a field of the struct the handler decodes.
C30_AdvertisedNamesDecoded ==
  (Handled /\ call.toolName \in DOMAIN GetToolDefinitions /\ call.args.syntax = "object") =>
    \A key \in DOMAIN call.args.obj :
      key \in DOMAIN Schema(call.toolName).Properties =>
        key \in DOMAIN HandlerParams(call.toolName)

====
